---------------------------- MODULE Spec2Model ----------------------------
(***************************************************************************)
(* The reloadable module controller of dynohot (src/runtime/controller.ts) *)
(* as a state machine: the five instance slots of every controller, the    *)
(* module instances they refer to, and the steps of `dispatch` and of      *)
(* `requestUpdate` between two suspension points (awaits).                 *)
(*                                                                         *)
(* The module instance (instance.ts), the hot facade (hot.ts), the         *)
(* traversal primitive (traverse.ts) and iterateWithRollback (utility.ts)  *)
(* are not part of the sources at hand; they are modelled from their       *)
(* description in the specification and from the way controller.ts and     *)
(* the tests use them.                                                     *)
(***************************************************************************)
EXTENDS Integers, Sequences, FiniteSets, TLC

\* ------------------------------------------------------------------------
\* Bounds of the model
\* ------------------------------------------------------------------------

\* Per application (see the end of the module): the number of watcher
\* events whose re-import completes, of user callbacks that fail, and of
\* hot.invalidate() calls in one behaviour.
AcceptLoads == 1
AcceptFaults == 1
AcceptInvalidations == 1

LinkLoads == 2

FaultLoads == 1
FaultFaults == 2

ShapeLoads == 2
\* Pruning: two touched files, one body or prune callback that throws.
PruneLoads == 2
PruneFaults == 1
\* Watching: three watcher events.
WatchLoads == 3
\* Dynamic imports: two watcher events.
DynamicLoads == 2
\* Start-up: two watcher events.
BootLoads == 2
\* Disposal: one watcher event; two callbacks that throw.
DisposeLoads == 1
DisposeFaults == 2
\* Races: two watcher events.
RaceLoads == 2

\* ------------------------------------------------------------------------
\* Modules, declarations, instances
\* ------------------------------------------------------------------------

\* The URLs of the application; Root is the controller `main` is called on.
Modules == {"main", "a", "b", "c"}
Root == "main"

\* Iteration order of a set of controllers (the order of the import
\* statements in a module's source).
Rank(m) == CASE m = "main" -> 1 [] m = "a" -> 2 [] m = "b" -> 3 [] m = "c" -> 4

\* `undefined` in an instance slot.
NULL == 0

\* No controller.
NoModule == "none"

\* Instance identities.  Three instances of one controller can be alive at
\* once (previous, current, staging).
Ids == 1 .. (3 * Cardinality(Modules))

NoBindings == [c \in Modules |-> NULL]


\* A module declaration, as built by `load` from the transformed source: the
\* static imports (loadedModules), the name bindings link has to resolve
\* (`strict`: a named binding is taken from every import; `exports`: the
\* module exports that name), and what the body does when it runs: the
\* controllers it imports dynamically and what it registers with the hot
\* facade.  `version` tells declaration objects apart.
Declaration(v, imports, strict, exports, dynamics, hot) ==
    [ version  |-> v,
      imports  |-> imports,
      strict   |-> strict,
      exports  |-> exports,
      dynamics |-> dynamics,
      hot      |-> hot ]

NoDeclaration == Declaration(0, {}, FALSE, FALSE, {}, "none")

\* The imports a declaration takes a named binding from.
Needs(decl) == IF decl.strict THEN decl.imports ELSE {}

\* What the body registers: accept(), accept(dependencies), decline().
AcceptsSelf(decl) == decl.hot = "self"
Accepts(decl) ==
    IF decl.hot \in { "deps", "declineDeps" }
    THEN decl.imports \cup decl.dynamics ELSE {}
Declines(decl) == decl.hot \in { "decline", "declineDeps" }

\* An unused instance identity.
FreeInstance ==
    [ module          |-> NoModule,
      decl            |-> NoDeclaration,
      status          |-> "free",
      evaluationError |-> FALSE,
      invalidated     |-> FALSE,
      dynamicImports  |-> {},
      bindings        |-> NoBindings,
      data            |-> NULL ]

\* new ReloadableModuleInstance(controller, declaration)
NewInstance(m, decl) ==
    [ FreeInstance EXCEPT !.module = m, !.decl = decl, !.status = "new" ]

\* The least unused identity of a store of instances.
NewId(store) ==
    CHOOSE i \in Ids :
        /\ store[i].status = "free"
        /\ \A j \in Ids : store[j].status = "free" => i <= j

\* instance.clone(): a fresh instance sharing the declaration.
Clone(store, id) == NewInstance(store[id].module, store[id].decl)

\* instance.instantiate(data): fresh exports, seeded with the dispose payload.
Instantiate(store, id, data) ==
    [ store EXCEPT ![id].status = "unlinked", ![id].data = data ]

\* Whether instance.link(select) succeeds: every named binding resolves
\* against the instance the selector gives for the imported controller.
CanLink(store, id, select) ==
    \A c \in store[id].decl.imports :
        /\ select[c] # NULL
        /\ c \in Needs(store[id].decl) => store[select[c]].decl.exports

\* instance.link(select) / instance.relink(): bind every import to the
\* instance the selector gives.  An evaluated instance stays evaluated.
Link(store, id, select) ==
    [ store EXCEPT
        ![id].bindings = [ c \in Modules |->
            IF c \in store[id].decl.imports THEN select[c] ELSE NULL ],
        ![id].status = IF @ = "evaluated" THEN @ ELSE "linked" ]

\* instance.unlink(): release the bindings.  An instance that never ran goes
\* back to "new" and the caller is told to forget it.
UnlinkForgets(store, id) == store[id].status # "evaluated"

Unlink(store, id) ==
    [ store EXCEPT
        ![id].bindings = NoBindings,
        ![id].status = IF @ = "evaluated" THEN @ ELSE "new" ]

\* instance.evaluate(): run the body to completion.  The post-state is always
\* "evaluated", discriminated by the error; a body that ran registered its
\* dynamic imports.
Evaluate(store, id, throws) ==
    [ store EXCEPT
        ![id].status = "evaluated",
        ![id].evaluationError = throws,
        ![id].dynamicImports = IF throws THEN {} ELSE store[id].decl.dynamics ]

\* ------------------------------------------------------------------------
\* Hot facade predicates (hot.ts)
\* ------------------------------------------------------------------------

\* The registrations are made by the body when it runs.
Registered(store, id) ==
    store[id].status = "evaluated" /\ ~store[id].evaluationError

isAcceptedSelf(store, id) ==
    Registered(store, id) /\ AcceptsSelf(store[id].decl)

isDeclined(store, id) ==
    Registered(store, id) /\ Declines(store[id].decl)

isInvalidated(store, id) == store[id].invalidated

\* Every changed dependency is covered by accept() or accept(dep).
isAccepted(store, id, deps) ==
    \/ deps = {}
    \/ /\ Registered(store, id)
       /\ AcceptsSelf(store[id].decl) \/ deps \subseteq Accepts(store[id].decl)

\* tryAccept runs the accept(dep) callbacks of the changed dependencies; it
\* fails when one of them is not covered by accept(dep), when a callback
\* throws or when the module was invalidated.
tryAccept(store, id, deps, fails) ==
    \/ deps = {}
    \/ /\ Registered(store, id)
       /\ deps \subseteq Accepts(store[id].decl)
       /\ ~fails
       /\ ~store[id].invalidated

\* tryAcceptSelf runs the accept() callback of the replaced instance.
tryAcceptSelf(store, id, fails) ==
    /\ isAcceptedSelf(store, id)
    /\ ~fails
    /\ ~store[id].invalidated

\* ------------------------------------------------------------------------
\* Graph views and the traversal primitive (traverse.ts)
\* ------------------------------------------------------------------------

SetOf(seq) == { seq[i] : i \in 1 .. Len(seq) }

RECURSIVE SortedSeq(_)
SortedSeq(S) ==
    IF S = {} THEN << >>
    ELSE LET first == CHOOSE m \in S : \A n \in S : Rank(m) <= Rank(n)
         IN  << first >> \o SortedSeq(S \ {first})

\* The children a controller yields, in order: the static imports of the
\* instance `select` gives, then the dynamic imports observed on the instance
\* `selectDynamic` gives.  select() asserts that the instance is defined; a
\* view marks the nodes where it fails with Broken.
Broken == << NoModule >>

iterate(store, id) == SortedSeq(store[id].decl.imports)

\* A controller that yields its static imports only.
iterateWithoutDynamics(store, select, selectDynamic, n) ==
    IF select[n] = NULL \/ selectDynamic[n] = NULL THEN Broken
    ELSE iterate(store, select[n])

iterateWithDynamics(store, select, selectDynamic, n) ==
    IF select[n] = NULL \/ selectDynamic[n] = NULL THEN Broken
    ELSE iterate(store, select[n])
            \o SortedSeq(store[selectDynamic[n]].dynamicImports)

View(store, select, selectDynamic) ==
    [ n \in Modules |-> iterateWithDynamics(store, select, selectDynamic, n) ]

StaticView(store, select) ==
    [ n \in Modules |->
        IF select[n] = NULL THEN Broken ELSE iterate(store, select[n]) ]

\* Depth-first walk: the nodes seen, in discovery order (pre) and in
\* completion order (post).
RECURSIVE DfsVisit(_, _, _), DfsChildren(_, _, _, _)
DfsVisit(view, n, st) ==
    IF n \in st.seen \/ n = NoModule THEN st
    ELSE LET entered == [ seen |-> st.seen \cup {n},
                          pre  |-> Append(st.pre, n),
                          post |-> st.post ]
             left    == DfsChildren(view, view[n], 1, entered)
         IN  [ left EXCEPT !.post = Append(@, n) ]

DfsChildren(view, children, i, st) ==
    IF i > Len(children) THEN st
    ELSE DfsChildren(view, children, i + 1, DfsVisit(view, children[i], st))

NoneSeen == [ seen |-> {}, pre |-> << >>, post |-> << >> ]

\* A walk that hands the nodes over as it discovers them.
DfsDiscovery(view, n) ==
    [ DfsVisit(view, n, NoneSeen) EXCEPT !.post = DfsVisit(view, n, NoneSeen).pre ]

Dfs(view, n) == DfsVisit(view, n, NoneSeen)

Reachable(view, n) == Dfs(view, n).seen

\* Whether the walk from n descends into a node whose select() fails.
WalkBroken(view, n) == \E m \in Reachable(view, n) : view[m] = Broken

\* The strongly connected component of n.
Component(view, n) == { m \in Reachable(view, n) : n \in Reachable(view, m) }

\* traverseDepthFirst: the components reachable from n in the order their
\* post-visit runs (a component completes when its first-discovered member
\* does), each with its members in discovery order.
ComponentOrder(view, n) ==
    LET Completes(walk, i) ==
            \A m \in Component(view, walk.post[i]) :
                \E j \in 1 .. i : walk.post[j] = m
        Members(walk, i) ==
            SelectSeq(walk.pre, LAMBDA m : m \in Component(view, walk.post[i]))
        RECURSIVE Collect(_, _)
        Collect(walk, i) ==
            IF i > Len(walk.post) THEN << >>
            ELSE (IF Completes(walk, i) THEN << Members(walk, i) >> ELSE << >>)
                    \o Collect(walk, i + 1)
    IN  Collect(Dfs(view, n), 1)

\* The successor components of component k: their post-results are the
\* forwardResults handed to its post-visit.
Successors(view, order, k) ==
    { j \in 1 .. Len(order) :
        /\ j # k
        /\ \E n \in SetOf(order[k]) :
              \E c \in SetOf(view[n]) : c \in SetOf(order[j]) }

\* controller.traverse(): the controllers reached from n through at least
\* one import, in discovery order.  n itself is yielded only when an import
\* cycle leads back to it.
traverse(view, n) == DfsChildren(view, view[n], 1, NoneSeen).pre

\* application.dynamicImport of module c by a running body: the controller
\* of c is dispatched (lines 251-305).  A controller that has a current is
\* left alone (line 252); otherwise staging becomes current, is instantiated,
\* linked and evaluated, and staging is cleared.  The imported modules of
\* the applications here import nothing themselves.  `w` holds the
\* instances, current and staging.
dispatchImported(w, c) ==
    IF w.current[c] # NULL \/ w.staging[c] = NULL THEN w
    ELSE LET id == w.staging[c]
             adopted == [ w.current EXCEPT ![c] = id ]
         IN  [ instances |->
                 Evaluate(Link(Instantiate(w.instances, id, NULL), id, adopted),
                          id, FALSE),
               current |-> adopted,
               staging |-> [ w.staging EXCEPT ![c] = NULL ] ]

\* The body of instance id ran to its end: every import() expression in
\* it dispatched the controller it names.
RECURSIVE dispatchEachImported(_, _)
dispatchEachImported(w, children) ==
    IF children = << >> THEN w
    ELSE dispatchEachImported(dispatchImported(w, Head(children)), Tail(children))

\* instance.evaluate() with the dispatches its body asks for.
evaluateBody(w, id, throws) ==
    dispatchEachImported(
        [ w EXCEPT !.instances = Evaluate(@, id, throws) ],
        IF throws THEN << >> ELSE SortedSeq(w.instances[id].decl.dynamics))

\* ------------------------------------------------------------------------
\* State
\* ------------------------------------------------------------------------

VARIABLES
    current,     \* controller.current   : [Modules -> Ids \cup {NULL}]
    pending,     \* controller.pending
    previous,    \* controller.previous
    staging,     \* controller.staging
    temporary,   \* controller.temporary
    version,     \* controller.version
    fatalError,  \* the root's fatalError: NoResult or the result record
    instances,   \* the instance every identity stands for
    call,        \* the locals of the dispatch / requestUpdate in flight
    result,      \* what the last requestUpdate returned (NoResult: none yet)
    seen,        \* what happened during the last update (observation only)
    budget,      \* loads, faults and invalidations still allowed
    debounce     \* the wrapper main() puts around application.requestUpdate

slots == << current, pending, previous, staging, temporary >>
vars == << current, pending, previous, staging, temporary, version,
           fatalError, instances, call, result, seen, budget, debounce >>

NoSlots == [ m \in Modules |-> NULL ]

\* Instances no slot refers to, directly or through a binding, are garbage:
\* their identities are free again.
RECURSIVE Held(_, _)
Held(store, ids) ==
    LET more == ids \cup
            ({ store[i].bindings[c] : i \in ids, c \in Modules } \ {NULL})
    IN  IF more = ids THEN ids ELSE Held(store, more)

Collected(store, cur, pend, prev, stag, temp) ==
    LET roots == { f[m] : f \in {cur, pend, prev, stag, temp}, m \in Modules }
                    \ {NULL}
        held  == Held(store, roots)
    IN  [ i \in Ids |-> IF i \in held THEN store[i] ELSE FreeInstance ]

Idle == [ pc |-> "idle" ]

\* requestUpdate has returned and its caller has not run yet.
Settled == [ pc |-> "settled" ]

\* No result record: fatalError unset, no requestUpdate has returned.
NoResult == [ type |-> "none" ]

NoInstances == [ i \in Ids |-> FreeInstance ]

\* What a call that returns before its dry run leaves of initialResult.
NoDryRun ==
    [ ran |-> FALSE, needsDispatch |-> FALSE, hasDecline |-> FALSE,
      hasNewCode |-> FALSE, invalidated |-> {}, visited |-> {},
      linkTestThrew |-> FALSE ]

\* What the running (or the last) requestUpdate call did so far.
NothingSeen ==
    [ quiet |-> FALSE,          \* nothing had changed when the call began
      initialResult |-> NoDryRun,
      disposed     |-> << >>,   \* controllers whose dispose ran, in order
      instantiated |-> << >>,   \* controllers given a new instance
      evaluated    |-> << >>,   \* controllers whose body ran
      threw        |-> NoModule, \* the controller whose body threw
      failed       |-> {},      \* the other callbacks that failed
      listed       |-> {},      \* the members of the invalidated lists
      dormant      |-> {},      \* pruned, by this call or before, not run since
      refused      |-> {},      \* staged when the call before ended in linkError
      accepted     |-> << >>,   \* controllers whose accept callbacks ran
      pruned       |-> << >>,   \* controllers whose prune ran
      relinked     |-> {},
      currentBefore |-> NoSlots,   \* the state the call began in
      stagingBefore |-> NoSlots,
      instancesBefore |-> NoInstances ]

\* ------------------------------------------------------------------------
\* Inputs: the sources a module can have
\* ------------------------------------------------------------------------

Source(imports, strict, exports, dynamics, hot) ==
    [ imports  |-> imports,
      strict   |-> strict,
      exports  |-> exports,
      dynamics |-> dynamics,
      hot      |-> hot ]

\* load builds the declaration from the transformed source.
Declare(v, src) ==
    Declaration(v, src.imports, src.strict, src.exports, src.dynamics, src.hot)

SourceOf(decl) ==
    Source(decl.imports, decl.strict, decl.exports, decl.dynamics, decl.hot)

\* What a module registers with the hot facade: nothing, accept(),
\* accept(imports), decline(), or decline() and accept(imports).
HotKinds == { "none", "self", "deps", "decline", "declineDeps" }

\* ------------------------------------------------------------------------
\* The wrapper of application.requestUpdate (utility.ts, used in line 241)
\* ------------------------------------------------------------------------

\* debounceTimer(100, debounceAsync(f)).  timer: a call waits for the window
\* to close; running: an execution of f is in flight; queued: a follow-up is
\* remembered.  For observation: the calls made in the open window, the calls
\* that reached debounceAsync since the execution in flight began, the
\* executions begun so far, the number of calls the last execution serves
\* and whether it is a follow-up.
NoCalls ==
    [ timer |-> FALSE, running |-> FALSE, queued |-> FALSE,
      calls |-> 0, missed |-> 0, started |-> 0, served |-> 0,
      followUp |-> FALSE ]

\* debounceTimer: a call opens the window, or keeps it open.
debounceTimer(d) == [ d EXCEPT !.timer = TRUE, !.calls = @ + 1 ]

\* The timer went off: the window is closed.
debounceExpired(d) == [ d EXCEPT !.timer = FALSE, !.calls = 0 ]

\* f begins for the calls of the window.
debounceRun(d) ==
    [ d EXCEPT !.running = TRUE, !.started = @ + 1, !.served = d.calls,
               !.followUp = FALSE ]

\* debounceAsync: a call runs f when no execution is in flight, and is
\* remembered as one follow-up otherwise.
debounceAsync(d) ==
    IF d.running
    THEN [ d EXCEPT !.queued = TRUE, !.missed = @ + d.calls ]
    ELSE debounceRun(d)

\* main() hands the update itself to the timer.
timerCallbackUnguarded(d) == debounceExpired(debounceRun(d))

\* Lines 241-244: what main() hands to the timer is debounceAsync(update).
timerCallback(d) == debounceExpired(debounceAsync(d))

\* The execution in flight settled: the wrapper goes on with the follow-up
\* when one is remembered.
debounceSettled(d) == [ d EXCEPT !.running = d.queued ]

\* The follow-up begins.
debounceFollowUp(d) ==
    [ d EXCEPT !.queued = FALSE, !.started = @ + 1, !.served = d.missed,
               !.missed = 0, !.followUp = TRUE ]

\* ------------------------------------------------------------------------
\* Construction
\* ------------------------------------------------------------------------

\* The loader imported the main module and, through its import statements,
\* every module it reaches; each called controller.load once.  main() has
\* not run yet.  The modules reached through import() expressions are staged
\* from the start as well: the source the loader will find for them is fixed
\* here, and nothing looks at their controllers before the import runs.
InitWith(srcs, limits) ==
    LET imports == [ m \in Modules |->
                       SortedSeq(srcs[m].imports \cup srcs[m].dynamics) ]
        loaded  == Dfs(imports, Root).pre
        IdOf(m) == CHOOSE i \in 1 .. Len(loaded) : loaded[i] = m
    IN  /\ current = NoSlots
        /\ pending = NoSlots
        /\ previous = NoSlots
        /\ temporary = NoSlots
        /\ staging = [ m \in Modules |->
                         IF m \in SetOf(loaded) THEN IdOf(m) ELSE NULL ]
        /\ instances = [ i \in Ids |->
                           IF i <= Len(loaded)
                           THEN NewInstance(loaded[i], Declare(0, srcs[loaded[i]]))
                           ELSE FreeInstance ]
        /\ version = [ m \in Modules |-> 0 ]
        /\ fatalError = NoResult
        /\ call = [ pc |-> "boot" ]
        /\ result = NoResult
        /\ seen = NothingSeen
        /\ budget = limits
        /\ debounce = NoCalls

\* What the environment may still do: watcher events whose re-import
\* completes, user callbacks that fail (and which callbacks can), calls of
\* hot.invalidate().
Limits(loads, faults, faulty, invalidations) ==
    [ loads |-> loads, faults |-> faults, faulty |-> faulty,
      invalidations |-> invalidations ]

\* The user callbacks that can fail.
Callbacks == { "evaluate", "accept", "acceptSelf", "dispose", "prune" }

\* An application: for each module the import lists, binding styles and hot
\* registrations its source can have; what an edit may change; whether files
\* change while an update runs.
DynamicsIn(app, m) ==
    IF "dynamics" \in DOMAIN app THEN app.dynamics[m] ELSE { {} }

SourcesIn(app, m) ==
    { Source(imports, strict, exports, dynamics, hot) :
        imports \in app.imports[m],
        strict \in app.strict[m],
        exports \in app.exports[m],
        dynamics \in DynamicsIn(app, m),
        hot \in app.hot[m] }

InitIn(app) ==
    \E main \in SourcesIn(app, "main") :
        \E a \in SourcesIn(app, "a") :
            \E b \in SourcesIn(app, "b") :
                \E c \in SourcesIn(app, "c") :
                    InitWith([ m \in Modules |->
                        CASE m = "main" -> main [] m = "a" -> a
                          [] m = "b" -> b [] m = "c" -> c ],
                        app.limits)

\* ------------------------------------------------------------------------
\* load (the watcher's re-import calls it) and hot.invalidate()
\* ------------------------------------------------------------------------

Known(m) == current[m] # NULL \/ staging[m] # NULL

\* A load that leaves an instance staged earlier in place.
loadStale(loader, m, src) ==
    LET id == NewId(loader.instances)
    IN  [ instances |-> [ loader.instances EXCEPT
              ![id] = NewInstance(m, Declare(loader.version[m] + 1, src)) ],
          staging |-> [ loader.staging EXCEPT ![m] = IF @ # NULL THEN @ ELSE id ],
          version |-> [ loader.version EXCEPT ![m] = @ + 1 ] ]

\* controller.load: a new declaration, a fresh instance in staging.
load(loader, m, src) ==
    LET id == NewId(loader.instances)
    IN  [ instances |-> [ loader.instances EXCEPT
              ![id] = NewInstance(m, Declare(loader.version[m] + 1, src)) ],
          staging |-> [ loader.staging EXCEPT ![m] = id ],
          version |-> [ loader.version EXCEPT ![m] = @ + 1 ] ]

\* The loader imports the modules of `todo`, in order, each with the source
\* `srcs` gives it.
RECURSIVE loadEach(_, _, _)
loadEach(loader, todo, srcs) ==
    IF todo = << >> THEN loader
    ELSE loadEach(load(loader, Head(todo), srcs[Head(todo)]), Tail(todo), srcs)

\* The modules a source imports that no controller has loaded yet.
Unknown(src) == { c \in src.imports : ~Known(c) }

\* A watcher event on a loaded module m whose re-import completes: m is
\* loaded from its new source, and so is every module the new source imports
\* for the first time (`fresh` gives their sources).
Loaded(m, src, fresh) ==
    /\ budget.loads > 0
    /\ Known(m)
    /\ DOMAIN fresh = Unknown(src)
    /\ \A c \in Unknown(src) :
          fresh[c].imports \subseteq { n \in Modules : Known(n) } \cup Unknown(src)
    /\ LET loader == loadEach(
               [ instances |-> instances, staging |-> staging, version |-> version ],
               << m >> \o SortedSeq(Unknown(src)),
               [ c \in {m} \cup Unknown(src) |-> IF c = m THEN src ELSE fresh[c] ])
       IN  /\ version' = loader.version
           /\ staging' = loader.staging
           /\ instances' = Collected(loader.instances, current, pending,
                                     previous, staging', temporary)
    /\ budget' = [ budget EXCEPT !.loads = @ - 1 ]
    /\ UNCHANGED << current, pending, previous, temporary, fatalError,
                    call, result, seen >>

\* The event comes while main() is idle or an update runs.
Load(m, src, fresh) ==
    /\ call.pc \notin { "boot", "dispatch", "crashed", "settled" }
    /\ Loaded(m, src, fresh)

\* User code calls import.meta.hot.invalidate() on a running module.
Invalidate(m) ==
    /\ call.pc = "idle"
    /\ budget.invalidations > 0
    /\ current[m] # NULL
    /\ Registered(instances, current[m])
    /\ ~instances[current[m]].invalidated
    /\ instances' = [ instances EXCEPT ![current[m]].invalidated = TRUE ]
    /\ budget' = [ budget EXCEPT !.invalidations = @ - 1 ]
    /\ UNCHANGED << current, pending, previous, staging, temporary, version,
                    fatalError, call, result, seen, debounce >>

\* ------------------------------------------------------------------------
\* dispatch
\* ------------------------------------------------------------------------

Flatten(order) ==
    LET RECURSIVE Join(_)
        Join(k) == IF k > Len(order) THEN << >> ELSE order[k] \o Join(k + 1)
    IN  Join(1)

\* Position of n in a sequence without repetitions (0: not in it).
IndexOf(seq, n) ==
    IF n \in SetOf(seq) THEN CHOOSE i \in 1 .. Len(seq) : seq[i] = n ELSE 0

\* A link that never fails.
FirstLinkFailureMissed(store, order, select) == << 0, 0 >>

\* The first member, in post-visit order, whose link fails: << k, j >>, or
\* << 0, 0 >> when every member links.
FirstLinkFailure(store, order, select) ==
    LET failing == { kj \in (1 .. Len(order)) \X (1 .. Cardinality(Modules)) :
                        /\ kj[2] <= Len(order[kj[1]])
                        /\ ~CanLink(store, select[order[kj[1]][kj[2]]], select) }
    IN  IF failing = {} THEN << 0, 0 >>
        ELSE CHOOSE kj \in failing :
                \A other \in failing :
                    \/ kj[1] < other[1]
                    \/ kj[1] = other[1] /\ kj[2] <= other[2]

\* What the pre-visit of dispatch's first traversal adopts as current.
dispatchAdopt(n) == IF current[n] # NULL THEN current[n] ELSE staging[n]

\* dispatch, up to its first await: adopt staging as current and instantiate
\* it, then link component by component.  A link failure unlinks the members
\* of the failing component iterated so far (iterateWithRollback) and the
\* nodes descended into but not yet post-visited (the traversal's onCancel),
\* clearing their current when unlink says so.
dispatchLink(root) ==
    LET adopt == [ n \in Modules |-> dispatchAdopt(n) ]
        \* The members whose link stands and those whose link is undone,
        \* given the first failure.
        Outcome(walk, order, fail) ==
            LET k == fail[1]
                done == UNION { SetOf(order[i]) : i \in 1 .. (k - 1) }
                iterated == { order[k][j] : j \in 1 .. fail[2] }
                cancelled ==
                    { n \in walk.seen \ done :
                        IndexOf(walk.pre, n) < IndexOf(walk.pre, order[k][1]) }
            IN  IF k = 0 THEN [ done |-> walk.seen, undone |-> {} ]
                ELSE [ done |-> done, undone |-> iterated \cup cancelled ]
        Linked(order, cur1, store1, fail, out) ==
            [ failed  |-> fail[1] # 0,
              current |-> [ n \in Modules |->
                            IF n \in out.undone /\ UnlinkForgets(store1, cur1[n])
                            THEN NULL ELSE cur1[n] ],
              store   |-> [ i \in Ids |->
                            IF \E n \in out.done : cur1[n] = i
                            THEN Link(store1, i, cur1)[i]
                            ELSE IF \E n \in out.undone : cur1[n] = i
                            THEN Unlink(store1, i)[i]
                            ELSE store1[i] ],
              order   |-> Flatten(order) ]
        Failing(walk, order, cur1, store1, fail) ==
            Linked(order, cur1, store1, fail, Outcome(walk, order, fail))
        Instantiated(walk, order, cur1, store1) ==
            Failing(walk, order, cur1, store1,
                    FirstLinkFailure(store1, order, cur1))
        Adopted(walk, order) ==
            Instantiated(walk, order,
                [ n \in Modules |->
                    IF n \in walk.seen THEN adopt[n] ELSE current[n] ],
                [ i \in Ids |->
                    IF \E n \in walk.seen : current[n] = NULL /\ adopt[n] = i
                    THEN Instantiate(instances, i, NULL)[i]
                    ELSE instances[i] ])
        Walked(view) == Adopted(Dfs(view, root), ComponentOrder(view, root))
    IN  Walked(StaticView(instances, adopt))

\* main(): dispatch the root.  (Lines 251-286.)
Dispatch ==
    /\ call.pc = "boot"
    /\ current[Root] = NULL
    /\ \E linked \in { dispatchLink(Root) } :
          /\ current' = linked.current
          /\ instances' = Collected(linked.store, linked.current, pending,
                                    previous, staging, temporary)
          /\ call' = IF linked.failed
                     THEN [ pc |-> "crashed", error |-> "link" ]
                     ELSE [ pc |-> "dispatch", order |-> linked.order, j |-> 1 ]
    /\ UNCHANGED << pending, previous, staging, temporary, version,
                    fatalError, result, seen, budget, debounce >>

\* A post-visit that leaves staging as it is.
dispatchStagingKept(stag, cur, n) == stag

\* Lines 297-300: staging is cleared when it is the instance that runs.
dispatchStaging(stag, cur, n) ==
    [ stag EXCEPT ![n] = IF @ = cur[n] THEN NULL ELSE @ ]

\* dispatch's second traversal, one member at a time (lines 295-302): clear
\* staging when it was adopted, then await evaluate().
DispatchEvaluate(throws) ==
    /\ call.pc = "dispatch"
    /\ throws => budget.faults > 0 /\ "evaluate" \in budget.faulty
    /\ \E ran \in { evaluateBody(
                        [ instances |-> instances,
                          current |-> current,
                          staging |-> dispatchStaging(staging, current,
                                                      call.order[call.j]) ],
                        current[call.order[call.j]], throws) } :
          /\ staging' = ran.staging
          /\ current' = ran.current
          /\ instances' = Collected(ran.instances, ran.current, pending,
                                    previous, ran.staging, temporary)
    /\ call' = IF throws THEN [ pc |-> "crashed", error |-> "evaluate" ]
               ELSE IF call.j = Len(call.order) THEN Idle
               ELSE [ call EXCEPT !.j = @ + 1 ]
    /\ budget' = IF throws THEN [ budget EXCEPT !.faults = @ - 1 ] ELSE budget
    /\ UNCHANGED << pending, previous, temporary, version,
                    fatalError, result, seen, debounce >>

\* ------------------------------------------------------------------------
\* requestUpdate, phase 1: the dry run (lines 431-472)
\* ------------------------------------------------------------------------

\* Pre-visit: pending = staging ?? current, previous = current.
dryRunPending(n) == IF staging[n] # NULL THEN staging[n] ELSE current[n]

dryRunPrevious(n) == current[n]

\* The graph the dry run walks: the static imports of pending, then the
\* dynamic imports of previous ?? pending.
dryRunView ==
    View(instances,
         [ n \in Modules |-> dryRunPending(n) ],
         [ n \in Modules |->
             IF dryRunPrevious(n) # NULL THEN dryRunPrevious(n)
             ELSE dryRunPending(n) ])

\* Line 449: previous !== pending.
nodeHasNewCode(n) == dryRunPrevious(n) # dryRunPending(n)

\* A member that asks for a dispatch whenever a dependency is invalidated,
\* accepted or not.
nodeNeedsDispatchForwarded(n, forwardUpdates) ==
    \/ nodeHasNewCode(n)
    \/ current[n] = NULL
    \/ isInvalidated(instances, current[n])
    \/ forwardUpdates # {}

\* Lines 451-456: the member needs a dispatch.
nodeNeedsDispatch(n, forwardUpdates) ==
    \/ nodeHasNewCode(n)
    \/ current[n] = NULL
    \/ isInvalidated(instances, current[n])
    \/ ~isAccepted(instances, current[n], forwardUpdates)

\* Every member that needs a dispatch is invalidated.
nodeInvalidatedAlways(n, forwardUpdates) ==
    nodeNeedsDispatch(n, forwardUpdates)

\* Line 458: a member that needs a dispatch is invalidated unless its
\* current instance accepts itself.
nodeInvalidated(n, forwardUpdates) ==
    /\ nodeNeedsDispatch(n, forwardUpdates)
    /\ current[n] = NULL \/ ~isAcceptedSelf(instances, current[n])

\* Line 461: the invalidated members whose current instance is declined.
nodeDeclined(n) == current[n] # NULL /\ isDeclined(instances, current[n])

\* The post-visit results of the dry run, one per component, in post-visit
\* order; the last one is initialResult.
dryRun(view, order) ==
    LET res[k \in 1 .. Len(order)] ==
            LET forward == Successors(view, order, k)
                forwardUpdates == UNION { res[j].invalidated : j \in forward }
                members == SetOf(order[k])
                invalidated ==
                    { n \in members : nodeInvalidated(n, forwardUpdates) }
                declined == { n \in invalidated : nodeDeclined(n) }
            IN  [ forward |-> forward,
                  invalidated |-> invalidated,
                  declined |-> declined,
                  hasDecline |-> \/ declined # {}
                                 \/ \E j \in forward : res[j].hasDecline,
                  hasNewCode |-> \/ \E n \in members : nodeHasNewCode(n)
                                 \/ \E j \in forward : res[j].hasNewCode,
                  needsDispatch |->
                      \/ \E n \in members : nodeNeedsDispatch(n, forwardUpdates)
                      \/ \E j \in forward : res[j].needsDispatch ]
    IN  res

\* A rollback that clears nothing.
rollbackKeeps(slot, nextControllers) == slot

\* rollback(): clear pending and previous of the controllers the dry run
\* post-visited (lines 475-480).
rollback(slot, nextControllers) ==
    [ n \in Modules |-> IF n \in nextControllers THEN NULL ELSE slot[n] ]

\* checkResult with the test for an unaccepted update before the test for
\* a declined one.
checkResultUnacceptedFirst(initialResult) ==
    IF ~initialResult.needsDispatch THEN "undefined"
    ELSE IF initialResult.invalidated # {} THEN "unaccepted"
    ELSE IF initialResult.hasDecline THEN "declined"
    ELSE "dispatch"

\* Lines 483-493: what the result of the dry run means for the update.
checkResult(initialResult) ==
    IF ~initialResult.needsDispatch THEN "undefined"
    ELSE IF initialResult.hasDecline THEN "declined"
    ELSE IF initialResult.invalidated # {} THEN "unaccepted"
    ELSE "dispatch"

\* Building the invalidation chain calls controller.select() on the
\* invalidated members of every result it walks into (line 512); select
\* asserts that current is defined.  The chain walks from a result into the
\* successor results that invalidate one of its members' dependencies.
RECURSIVE chainThrows(_, _)
chainThrows(res, k) ==
    \/ \E n \in res[k].invalidated : current[n] = NULL
    \/ LET importedModules ==
               UNION { instances[current[n]].decl.imports
                         \cup instances[current[n]].dynamicImports :
                       n \in res[k].invalidated }
       IN  \E j \in res[k].forward :
               /\ res[j].invalidated \cap importedModules # {}
               /\ chainThrows(res, j)

\* ------------------------------------------------------------------------
\* requestUpdate, phase 2: the link test (lines 547-595)
\* ------------------------------------------------------------------------

\* Lines 560-569: the components that get temporary instances.
linkTestHasUpdate(view, order, pend) ==
    LET has[k \in 1 .. Len(order)] ==
            \/ \E j \in Successors(view, order, k) : has[j]
            \/ \E n \in SetOf(order[k]) : pend[n] # current[n]
    IN  has

\* A link test against the instances that run now.
linkTestCanLinkCurrent(n, pend) == CanLink(instances, pend[n], current)

\* Line 579: the temporary of a member links against temporary ?? pending of
\* its imports; both carry the declaration of pending.
linkTestCanLink(n, pend) == CanLink(instances, pend[n], pend)

\* The first component whose link test throws (0: none); `has` tells the
\* components that get temporary instances.
linkTestFailure(order, pend, has) ==
    LET failing == { k \in 1 .. Len(order) :
                       has[k] /\ \E n \in SetOf(order[k]) : ~linkTestCanLink(n, pend) }
    IN  IF failing = {} THEN 0
        ELSE CHOOSE k \in failing : \A other \in failing : k <= other

\* The controllers pushed to `instantiated` before the test ends.
linkTestInstantiated(order, has, fail) ==
    UNION { SetOf(order[k]) :
              k \in { i \in 1 .. Len(order) :
                        has[i] /\ (fail = 0 \/ i <= fail) } }

\* A finally block that leaves the temporary instances in place.
linkTestFinallyKeeps(temp, instantiated) == temp

\* The finally of the link test: unlink and drop every temporary instance.
linkTestFinally(temp, instantiated) ==
    [ n \in Modules |-> IF n \in instantiated THEN NULL ELSE temp[n] ]

\* ------------------------------------------------------------------------
\* requestUpdate: results, and the state a step works on
\* ------------------------------------------------------------------------

Result(type) == [ type |-> type ]

\* A fatal error: the callback that threw tells the error objects apart.
Fatal(callback, n) ==
    [ type |-> "fatalError", error |-> [ callback |-> callback, module |-> n ] ]

\* The call rejected: an assertion of the controller failed, or an error
\* escaped the catch handler.
Rejected == Result("rejected")

\* The variables a step of requestUpdate reads and writes, as one record.
State ==
    [ current |-> current, pending |-> pending, previous |-> previous,
      staging |-> staging, temporary |-> temporary, instances |-> instances,
      fatalError |-> fatalError, call |-> call, result |-> result,
      seen |-> seen ]

Commit(st) ==
    /\ current' = st.current
    /\ pending' = st.pending
    /\ previous' = st.previous
    /\ staging' = st.staging
    /\ temporary' = st.temporary
    /\ instances' = Collected(st.instances, st.current, st.pending,
                              st.previous, st.staging, st.temporary)
    /\ fatalError' = st.fatalError
    /\ call' = st.call
    /\ result' = st.result
    /\ seen' = st.seen

\* Lines 411-419: what the closure stats() of a result reads once the call
\* is over; a call that returns before phase 3 has counted nothing.
stats(c) ==
    IF "loads" \in DOMAIN c
    THEN [ loads |-> c.loads, reevaluations |-> c.reevaluations ]
    ELSE [ loads |-> 0, reevaluations |-> 0 ]

\* `return value`: the call is over.
return(st, value) ==
    [ st EXCEPT !.call = [ pc |-> Settled.pc, stats |-> stats(st.call) ],
                !.result = value ]

\* ------------------------------------------------------------------------
\* requestUpdate, the finally block (lines 739-765)
\* ------------------------------------------------------------------------

\* The view controller.traverse() walks: current, with its dynamic imports.
currentView(st) == View(st.instances, st.current, st.current)

\* Lines 741-747: walk the controllers reachable now; each must have no
\* pending, and gets previous cleared.  The walk stops where the assertion
\* fails, or where select() fails on a controller without current.
finallyStop(st, walk) ==
    LET bad == { i \in 1 .. Len(walk) :
                   \/ st.pending[walk[i]] # NULL
                   \/ st.current[walk[i]] = NULL }
    IN  IF st.current[Root] = NULL THEN 1
        ELSE IF bad = {} THEN Len(walk) + 1
        ELSE CHOOSE i \in bad : \A other \in bad : i <= other

finallyCleared(st, walk, stop) ==
    { walk[i] : i \in 1 .. (stop - 1) } \cup
    { walk[i] : i \in { x \in 1 .. Len(walk) :
                          x = stop /\ st.pending[walk[x]] = NULL } }

finallyThrows(st, walk, stop) ==
    \/ st.current[Root] = NULL
    \/ stop <= Len(walk)

\* Line 749: the controllers reachable before the update and not after it.
orphansOf(st, walk) ==
    SelectSeq(st.call.previousControllers, LAMBDA n : n \notin SetOf(walk))

\* The finally block up to its first await, given the controllers its
\* traversal yields: `outcome` is what the try or the catch block returned.
finallyWalked(st, outcome, walk) ==
    LET stop == finallyStop(st, walk)
        cleared == [ st EXCEPT !.previous =
                       [ n \in Modules |->
                           IF n \in finallyCleared(st, walk, stop)
                           THEN NULL ELSE @[n] ] ]
        orphans == orphansOf(st, walk)
    IN  IF finallyThrows(st, walk, stop) THEN return(cleared, Rejected)
        ELSE IF orphans = << >> THEN return(cleared, outcome)
        ELSE [ cleared EXCEPT !.call =
                 [ st.call EXCEPT !.pc = "prune", !.orphans = orphans,
                                  !.j = 1, !.outcome = outcome ] ]

finally(st, outcome) ==
    finallyWalked(st, outcome, traverse(currentView(st), Root))

\* Lines 750-762, one orphan: prune its current instance, move a clone of it
\* to staging and clear current and previous.  A prune that throws is fatal.
pruneOrphan(st, throws) ==
    LET n  == st.call.orphans[st.call.j]
        id == st.current[n]
        fatal == Fatal("prune", n)
        clone == NewId(st.instances)
        pruned == [ st EXCEPT
            !.seen.pruned = Append(@, n),
            !.seen.failed = IF throws THEN @ \cup {"prune"} ELSE @ ]
        moved == [ pruned EXCEPT
                     !.seen.dormant = @ \cup {n},
                     !.instances[clone] = Clone(st.instances, id),
                     !.staging[n] = clone,
                     !.current[n] = NULL,
                     !.previous[n] = NULL ]
    IN  IF id = NULL THEN return(st, Rejected)
        ELSE IF throws
        THEN return([ pruned EXCEPT !.fatalError = fatal ], fatal)
        ELSE IF st.call.j = Len(st.call.orphans)
        THEN return(moved, st.call.outcome)
        ELSE [ moved EXCEPT !.call.j = @ + 1 ]

\* ------------------------------------------------------------------------
\* requestUpdate, the catch block (lines 713-737)
\* ------------------------------------------------------------------------

\* The catch traversal walks the current view.  Pre-visit: unlink and drop
\* pending.  Post-visit: relink current.  It throws where select() fails on
\* a controller without current, or where a relink cannot resolve a binding.
catchWalk(st) == Reachable(currentView(st), Root)

catchThrows(st, walk) ==
    \/ \E n \in walk : st.current[n] = NULL
    \/ \E n \in walk : ~CanLink(st.instances, st.current[n], st.current)

catchUnlinked(st, walk) ==
    LET dropped == { st.pending[n] : n \in walk } \ {NULL}
    IN  [ i \in Ids |->
            IF i \in dropped THEN Unlink(st.instances, i)[i]
            ELSE st.instances[i] ]

catchRelinked(st, walk, store) ==
    LET live == { st.current[n] : n \in walk } \ {NULL}
    IN  [ i \in Ids |->
            IF i \in live THEN Link(store, i, st.current)[i] ELSE store[i] ]

\* The catch block, given the controllers its traversal walks, then the
\* finally block.
catchWalked(st, fatal, walk) ==
    LET throws == catchThrows(st, walk)
        dropped == [ st EXCEPT
                       !.pending = [ n \in Modules |->
                           IF n \in walk THEN NULL ELSE @[n] ],
                       !.instances = catchUnlinked(st, walk) ]
        relinked == [ dropped EXCEPT
                        !.instances = catchRelinked(st, walk, @),
                        !.seen.relinked = @ \cup walk,
                        !.fatalError = IF fatal # NoResult THEN fatal ELSE @ ]
    IN  finally(IF throws THEN dropped ELSE relinked,
                IF throws THEN Rejected
                ELSE IF fatal # NoResult THEN fatal
                ELSE Result("evaluationError"))

\* `fatal` is the error of a dispose callback that threw and set
\* dispatchLinkErrorType, or NoResult.
catch(st, fatal) == catchWalked(st, fatal, catchWalk(st))

\* ------------------------------------------------------------------------
\* requestUpdate, phase 3: one component's post-visit (lines 617-706)
\* ------------------------------------------------------------------------

cycleNodes(st) == st.call.order[st.call.k]

cycleNode(st) == cycleNodes(st)[st.call.j]

forwardResults(st) == st.call.forward[st.call.k]

\* Line 627.
treeDidUpdate(st) == \E j \in forwardResults(st) : st.call.results[j].treeDidUpdate

\* Line 629.
forwardUpdates(st) ==
    UNION { st.call.results[j].invalidated : j \in forwardResults(st) }

RunResult(didUpdate, invalidated) ==
    [ treeDidUpdate |-> didUpdate, invalidated |-> invalidated ]

\* Least member of a non-empty set of positions.
First(S) == CHOOSE i \in S : \A other \in S : i <= other

RECURSIVE enter(_), advance(_, _), commitUnchanged(_)

\* The post-visit returned `res`: the traversal goes on to the next
\* component, or the try block ends (lines 708-711 and 767-770).
advance(st, res) ==
    LET done == [ st EXCEPT !.call.results = Append(@, res),
                            !.seen.listed = @ \cup res.invalidated ]
    IN  IF st.call.k = Len(st.call.order)
        THEN finally(done, IF res.treeDidUpdate THEN Result("success")
                           ELSE Result("undefined"))
        ELSE enter([ done EXCEPT !.call.k = @ + 1 ])

\* Lines 639-645: no member is replaced; current must equal pending.
commitUnchanged(st) ==
    LET nodes == cycleNodes(st)
        bad   == { i \in 1 .. Len(nodes) :
                     st.current[nodes[i]] # st.pending[nodes[i]] }
        stop  == IF bad = {} THEN Len(nodes) + 1 ELSE First(bad)
        cleared == [ st EXCEPT !.pending = [ n \in Modules |->
                        IF \E i \in 1 .. (stop - 1) : nodes[i] = n
                        THEN NULL ELSE @[n] ] ]
    IN  IF bad = {}
        THEN advance(cleared, RunResult(treeDidUpdate(st), {}))
        ELSE catch(cleared, NoResult)

\* A post-visit whose test for new code does not look at staging.
enterUnstaged(st) ==
    LET nodes == cycleNodes(st)
        hit == { i \in 1 .. Len(nodes) :
                   \/ st.current[nodes[i]] = NULL
                   \/ isInvalidated(st.instances, st.current[nodes[i]]) }
    IN  IF hit # {}
        THEN IF st.pending[nodes[First(hit)]] = NULL THEN catch(st, NoResult)
             ELSE [ st EXCEPT !.call.pc = "dispose", !.call.j = 1 ]
        ELSE IF treeDidUpdate(st)
        THEN [ st EXCEPT !.call.pc = "accept", !.call.j = 1 ]
        ELSE commitUnchanged(st)

\* A post-visit that replaces the members whatever their state.
enterReplaces(st) == [ st EXCEPT !.call.pc = "dispose", !.call.j = 1 ]

\* Lines 618-628, up to the first await of the post-visit.
enter(st) ==
    LET nodes == cycleNodes(st)
        hit == { i \in 1 .. Len(nodes) :
                   \/ st.staging[nodes[i]] # NULL
                   \/ st.current[nodes[i]] = NULL
                   \/ isInvalidated(st.instances, st.current[nodes[i]]) }
        selectThrows ==
            /\ hit # {}
            /\ st.staging[nodes[First(hit)]] = NULL
            /\ st.current[nodes[First(hit)]] = NULL
    IN  IF selectThrows THEN catch(st, NoResult)
        ELSE IF hit # {}
        THEN [ st EXCEPT !.call.pc = "dispose", !.call.j = 1 ]
        ELSE IF treeDidUpdate(st)
        THEN [ st EXCEPT !.call.pc = "accept", !.call.j = 1 ]
        ELSE commitUnchanged(st)

\* Whether tryAccept has accept callbacks to run.
acceptRuns(store, id, deps) ==
    Registered(store, id) /\ deps \cap Accepts(store[id].decl) # {}

\* Lines 630-637, one member: relink it and run its accept callbacks.
accept(st, fails) ==
    LET n  == cycleNode(st)
        id == st.current[n]
        deps == forwardUpdates(st)
        relinked == [ st EXCEPT
            !.instances = Link(@, id, st.current),
            !.seen.relinked = @ \cup {n},
            !.seen.failed = IF fails THEN @ \cup {"accept"} ELSE @,
            !.seen.accepted = IF acceptRuns(st.instances, id, deps)
                              THEN Append(@, n) ELSE @ ]
    IN  IF id = NULL \/ ~CanLink(st.instances, id, st.current)
        THEN catch(st, NoResult)
        ELSE IF ~tryAccept(st.instances, id, deps, fails)
        THEN [ relinked EXCEPT !.call.pc = "dispose", !.call.j = 1 ]
        ELSE IF st.call.j < Len(cycleNodes(st))
        THEN [ relinked EXCEPT !.call.j = @ + 1 ]
        ELSE commitUnchanged(relinked)

\* The members go on to be evaluated without having been linked.
linkMembersSkipped(st) ==
    [ st EXCEPT !.call.pc = "evaluate", !.call.j = 1 ]

\* Lines 668-670: link the members, in order, against current.
linkMembers(st) ==
    LET nodes == cycleNodes(st)
        bad   == { i \in 1 .. Len(nodes) :
                     ~CanLink(st.instances, st.current[nodes[i]], st.current) }
        stop  == IF bad = {} THEN Len(nodes) + 1 ELSE First(bad)
        ids   == { st.current[nodes[i]] : i \in 1 .. (stop - 1) }
        linked == [ st EXCEPT !.instances = [ i \in Ids |->
                      IF i \in ids THEN Link(st.instances, i, st.current)[i]
                      ELSE st.instances[i] ] ]
    IN  IF bad = {}
        THEN [ linked EXCEPT !.call.pc = "evaluate", !.call.j = 1 ]
        ELSE catch(linked, NoResult)

\* Lines 648-666, one member: dispose current, make pending (or a clone of
\* current) the new current and instantiate it with the dispose payload.
dispose(st, throws) ==
    LET n    == cycleNode(st)
        pend == st.pending[n]
        old  == st.current[n]
        disposed == IF old = NULL THEN st
                    ELSE [ st EXCEPT
                        !.seen.disposed = Append(@, n),
                        !.seen.failed = IF throws THEN @ \cup {"dispose"} ELSE @ ]
        new  == IF old = pend THEN NewId(st.instances) ELSE pend
        cloned == IF old = pend
                  THEN [ st.instances EXCEPT ![new] = Clone(st.instances, old) ]
                  ELSE st.instances
        replaced == [ disposed EXCEPT
            !.current[n] = new,
            !.instances = Instantiate(cloned, new, old),
            !.seen.instantiated = Append(@, n) ]
    IN  IF pend = NULL \/ throws
        THEN catch(IF pend = NULL THEN st ELSE disposed,
                   IF pend = NULL THEN NoResult ELSE Fatal("dispose", n))
        ELSE IF st.call.j < Len(cycleNodes(st))
        THEN [ replaced EXCEPT !.call.j = @ + 1 ]
        ELSE linkMembers(replaced)

\* Lines 694-705: the next member whose previous is defined gets its
\* self-accept tried; without one the post-visit returns.
trySelfFrom(st, from) ==
    LET nodes == cycleNodes(st)
        left  == { i \in from .. Len(nodes) : st.previous[nodes[i]] # NULL }
    IN  IF left = {}
        THEN advance(st, RunResult(TRUE, st.call.invalidated))
        ELSE [ st EXCEPT !.call.pc = "acceptSelf", !.call.j = First(left) ]

\* The rollback of iterateWithRollback (lines 672-680) over the members
\* iterated so far: those whose evaluation failed get previous back.
evaluateRollback(st) ==
    LET nodes == cycleNodes(st)
        failed == { nodes[i] : i \in { x \in 1 .. st.call.j :
                      st.instances[st.current[nodes[x]]].evaluationError } }
    IN  [ st EXCEPT !.current = [ n \in Modules |->
            IF n \in failed THEN st.previous[n] ELSE @[n] ] ]

\* Every member that ran before counts as evaluated again.
isReevaluationOfAny(st, n) == st.previous[n] # NULL

\* Line 683: the same declaration is evaluated again.
isReevaluation(st, n) ==
    /\ st.previous[n] # NULL
    /\ st.instances[st.current[n]].decl = st.instances[st.previous[n]].decl

\* Lines 681-693, one member: count it, run its body, and on success clear
\* pending, and staging when current was staged.
evaluateWith(st, throws, w) ==
    LET n  == cycleNode(st)
        id == st.current[n]
        ran == [ st EXCEPT
            !.instances = w.instances,
            !.current = w.current,
            !.staging = w.staging,
            !.seen.evaluated = Append(@, n),
            !.seen.threw = IF throws THEN n ELSE @,
            !.call.reevaluations = IF isReevaluation(st, n) THEN @ + 1 ELSE @,
            !.call.loads = IF isReevaluation(st, n) THEN @ ELSE @ + 1 ]
        kept == [ ran EXCEPT
            !.pending[n] = NULL,
            !.staging[n] = IF @ = id THEN NULL ELSE @ ]
    IN  IF throws THEN catch(evaluateRollback(ran), NoResult)
        ELSE IF st.call.j < Len(cycleNodes(st))
        THEN [ kept EXCEPT !.call.j = @ + 1 ]
        ELSE trySelfFrom([ kept EXCEPT !.call.invalidated = {} ], 1)

evaluate(st, throws) ==
    evaluateWith(st, throws,
        evaluateBody([ instances |-> st.instances, current |-> st.current,
                       staging |-> st.staging ],
                     st.current[cycleNode(st)], throws))

\* Lines 696-703, one member: the self-accept callback of previous.
acceptSelf(st, fails) ==
    LET n == cycleNode(st)
        ok == tryAcceptSelf(st.instances, st.previous[n], fails)
        tried == [ st EXCEPT
            !.call.invalidated = IF ok THEN @ ELSE @ \cup {n},
            !.seen.failed = IF fails THEN @ \cup {"acceptSelf"} ELSE @,
            !.seen.accepted = IF isAcceptedSelf(st.instances, st.previous[n])
                              THEN Append(@, n) ELSE @ ]
    IN  trySelfFrom(tried, st.call.j + 1)

\* ------------------------------------------------------------------------
\* requestUpdate, from the call to the first await (lines 404-617)
\* ------------------------------------------------------------------------

\* Nothing changed since the graph was last evaluated: every controller
\* reachable from the root through current has a current instance that is
\* not invalidated, and no staged instance.
Quiet ==
    \A n \in Reachable(View(instances, current, current), Root) :
        /\ staging[n] = NULL
        /\ current[n] # NULL
        /\ ~isInvalidated(instances, current[n])

\* What is seen of a call when it begins.
Called ==
    [ NothingSeen EXCEPT !.quiet = Quiet,
                         !.currentBefore = current,
                         !.stagingBefore = staging,
                         !.instancesBefore = instances,
                         !.dormant = seen.dormant,
                         !.refused = seen.refused ]

\* The call record of a running update.
Update(view, order, previousControllers) ==
    [ pc |-> "enter",
      order |-> order,
      forward |-> [ k \in 1 .. Len(order) |-> Successors(view, order, k) ],
      k |-> 1,
      j |-> 1,
      results |-> << >>,
      invalidated |-> {},
      previousControllers |-> previousControllers,
      orphans |-> << >>,
      outcome |-> NoResult,
      loads |-> 0,
      reevaluations |-> 0 ]

\* Lines 547-617: the link test, then the first post-visit.  `has` tells
\* the components that get temporary instances; the clones stand in
\* temporary until the finally block of the test drops them.
updateTested(order, marked, rolledBack, has) ==
    LET fail == linkTestFailure(order, marked.pending, has)
        instantiated == linkTestInstantiated(order, has, fail)
        tested == [ n \in Modules |->
                      IF n \in instantiated THEN marked.pending[n]
                      ELSE marked.temporary[n] ]
        dropped == linkTestFinally(tested, instantiated)
        previousView == View(instances, current, current)
    IN  IF fail # 0
        THEN return([ rolledBack EXCEPT
                        !.temporary = dropped,
                        !.seen.initialResult.linkTestThrew = TRUE ],
                    Result("linkError"))
        ELSE IF WalkBroken(previousView, Root)
        THEN return([ marked EXCEPT !.temporary = dropped ], Rejected)
        ELSE enter([ marked EXCEPT
                !.temporary = dropped,
                !.call = Update(dryRunView, order, traverse(previousView, Root)) ])

\* Lines 473-546: the results of the dry run, one per component, decide
\* whether the update goes on.
updateChecked(order, visited, res) ==
    LET initialResult == res[Len(order)]
        nextControllers == SetOf(Flatten(order))
        marked == [ visited EXCEPT
            !.seen.listed =
                UNION { res[k].invalidated : k \in 1 .. Len(order) },
            !.seen.initialResult =
                [ ran |-> TRUE,
                  needsDispatch |-> initialResult.needsDispatch,
                  hasDecline |-> initialResult.hasDecline,
                  hasNewCode |-> initialResult.hasNewCode,
                  invalidated |-> initialResult.invalidated,
                  visited |-> nextControllers,
                  linkTestThrew |-> FALSE ] ]
        verdict == checkResult(initialResult)
        rolledBack == [ marked EXCEPT
            !.pending = rollback(@, nextControllers),
            !.previous = rollback(@, nextControllers) ]
    IN  IF verdict \in { "undefined", "declined" }
        THEN return(rolledBack, Result(verdict))
        ELSE IF verdict = "unaccepted"
        THEN IF chainThrows(res, Len(order))
             THEN return(marked, Rejected)
             ELSE return(rolledBack, Result("unaccepted"))
        ELSE updateTested(order, marked, rolledBack,
                IF initialResult.hasNewCode
                THEN linkTestHasUpdate(dryRunView, order, marked.pending)
                ELSE [ k \in 1 .. Len(order) |-> FALSE ])

\* Lines 432-472: the pre-visits of the dry run have set pending and
\* previous on the controllers of `order`; a select() that fails ends the
\* call, otherwise the post-visits give the results.
updateVisited(order, visited) ==
    IF WalkBroken(dryRunView, Root)
    THEN return([ visited EXCEPT
                    !.pending = rollback(@, SetOf(Flatten(order))),
                    !.previous = rollback(@, SetOf(Flatten(order))) ],
                Rejected)
    ELSE updateChecked(order, visited, dryRun(dryRunView, order))

\* Lines 411-617: the dry run, the link test and the first post-visit.
update ==
    LET order == ComponentOrder(dryRunView, Root)
    IN  updateVisited(order,
            [ State EXCEPT
                !.seen = Called,
                !.pending = [ n \in Modules |->
                    IF n \in SetOf(Flatten(order))
                    THEN dryRunPending(n) ELSE @[n] ],
                !.previous = [ n \in Modules |->
                    IF n \in SetOf(Flatten(order))
                    THEN dryRunPrevious(n) ELSE @[n] ] ])

\* A call that does not look at the recorded fatal error.
requestUpdateForgets == update

\* Lines 404-409: a recorded fatal error is returned at once.
requestUpdate ==
    IF fatalError # NoResult
    THEN return([ State EXCEPT !.seen = Called ], fatalError)
    ELSE update

\* ------------------------------------------------------------------------
\* Actions of an update
\* ------------------------------------------------------------------------

Spend(callback, fault) ==
    /\ fault => budget.faults > 0 /\ callback \in budget.faulty
    /\ budget' = IF fault THEN [ budget EXCEPT !.faults = @ - 1 ] ELSE budget
    /\ UNCHANGED << version, debounce >>

RequestUpdate ==
    /\ call.pc = "idle"
    /\ Commit(requestUpdate)
    /\ UNCHANGED << version, budget, debounce >>

\* The accept callbacks of a member ran (and one threw or invalidated).
Accept(fails) ==
    /\ call.pc = "accept"
    /\ fails => /\ current[cycleNode(State)] # NULL
                /\ acceptRuns(instances, current[cycleNode(State)],
                              forwardUpdates(State))
    /\ Spend("accept", fails)
    /\ Commit(accept(State, fails))

\* The dispose callbacks of a member ran (and one threw).
Dispose(throws) ==
    /\ call.pc = "dispose"
    /\ throws => current[cycleNode(State)] # NULL
    /\ Spend("dispose", throws)
    /\ Commit(dispose(State, throws))

\* The body of a member ran (and threw).
EvaluateMember(throws) ==
    /\ call.pc = "evaluate"
    /\ Spend("evaluate", throws)
    /\ Commit(evaluate(State, throws))

\* The self-accept callback of a replaced member ran (and failed).
AcceptSelf(fails) ==
    /\ call.pc = "acceptSelf"
    /\ fails => isAcceptedSelf(instances, previous[cycleNode(State)])
    /\ Spend("acceptSelf", fails)
    /\ Commit(acceptSelf(State, fails))

\* The prune callbacks of an orphan ran (and one threw).
Prune(throws) ==
    /\ call.pc = "prune"
    /\ throws => current[call.orphans[call.j]] # NULL
    /\ Spend("prune", throws)
    /\ Commit(pruneOrphan(State, throws))

\* The caller of requestUpdate resumes with the result and drops it.
Resume ==
    /\ call.pc = "settled"
    /\ call' = Idle
    /\ result' = NoResult
    /\ seen' = [ NothingSeen EXCEPT
                    !.dormant = { n \in seen.dormant : current[n] = NULL },
                    !.refused = IF result.type = "linkError"
                                THEN { n \in Modules : staging[n] # NULL }
                                ELSE {} ]
    /\ UNCHANGED << slots, version, fatalError, instances, budget >>

\* The caller is a test, calling application.requestUpdateResult (line 245).
Settle == Resume /\ UNCHANGED debounce

\* ------------------------------------------------------------------------
\* The environment of an application, and its behaviours
\* ------------------------------------------------------------------------

\* The source the loader last saw of a loaded module.
LatestSource(m) ==
    SourceOf(instances[IF staging[m] # NULL THEN staging[m] ELSE current[m]].decl)

\* What an edit can change of a source.
Aspects == { "imports", "bindings", "hot" }

\* The sources an edit of m can produce: the aspects the application does
\* not edit stay as they are.
Edits(app, m) ==
    { src \in SourcesIn(app, m) :
        /\ "imports" \in app.edits \/ src.imports = LatestSource(m).imports
        /\ "imports" \in app.edits \/ src.dynamics = LatestSource(m).dynamics
        /\ "bindings" \in app.edits
              \/ /\ src.strict = LatestSource(m).strict
                 /\ src.exports = LatestSource(m).exports
        /\ "hot" \in app.edits \/ src.hot = LatestSource(m).hot }

\* The sources of the modules an edit imports for the first time.
FreshSources(app, src) ==
    IF Unknown(src) = {} THEN { << >> }
    ELSE { fresh \in [ Unknown(src) -> UNION { SourcesIn(app, c) : c \in Modules } ] :
             \A c \in Unknown(src) : fresh[c] \in SourcesIn(app, c) }

Edited(app) ==
    \E m \in Modules :
        /\ Known(m)
        /\ app.concurrent \/ call.pc = "idle"
        /\ \E src \in Edits(app, m) :
              \E fresh \in FreshSources(app, src) : Load(m, src, fresh)

\* A file is edited while the wrapper of application.requestUpdate is not
\* looked at.
Edit(app) == Edited(app) /\ UNCHANGED debounce

\* A file is edited while dispatch awaits the bodies of the modules: the
\* watcher is set up by the constructor (lines 213-235) and its re-import
\* calls load at any time.
EditDispatching(app) ==
    /\ call.pc = "dispatch"
    /\ \E m \in Modules :
          /\ Known(m)
          /\ \E src \in Edits(app, m) :
                Unknown(src) = {} /\ Loaded(m, src, << >>)
    /\ UNCHANGED debounce

\* The steps of main() and of a running requestUpdate.
Steps ==
    \/ Dispatch
    \/ \E throws \in BOOLEAN : DispatchEvaluate(throws)
    \/ \E fails \in BOOLEAN : Accept(fails)
    \/ \E throws \in BOOLEAN : Dispose(throws)
    \/ \E throws \in BOOLEAN : EvaluateMember(throws)
    \/ \E fails \in BOOLEAN : AcceptSelf(fails)

\* The watcher callback (lines 213-235): the re-import of the edited file
\* completed and application.requestUpdate is called.
Watch(app) == Edited(app) /\ debounce' = debounceTimer(debounce)

\* The timer goes off: an execution of requestUpdate begins, or a follow-up
\* is remembered.
Expire ==
    /\ debounce.timer
    /\ debounce' = timerCallback(debounce)
    /\ IF debounce'.started # debounce.started
       THEN Commit(requestUpdate) /\ UNCHANGED << version, budget >>
       ELSE UNCHANGED << slots, version, fatalError, instances, call, result,
                         seen, budget >>

\* Line 242: the awaited requestUpdate settled; its result is logged.
Logged == Resume /\ debounce' = debounceSettled(debounce)

\* The follow-up execution begins.
FollowUp ==
    /\ debounce.running
    /\ debounce.queued
    /\ call.pc = "idle"
    /\ debounce' = debounceFollowUp(debounce)
    /\ Commit(requestUpdate)
    /\ UNCHANGED << version, budget >>

\* The steps of an application whose updates the watcher asks for.
Watched(app) ==
    \/ Steps
    \/ Watch(app)
    \/ Expire
    \/ Logged
    \/ FollowUp

\* The steps every application takes when requestUpdate is called directly.
Run ==
    \/ Steps
    \/ RequestUpdate
    \/ Settle

\* Orphans appear only where edits remove imports.
Prunes == \E throws \in BOOLEAN : Prune(throws)

Invalidates == \E m \in Modules : Invalidate(m)

\* ------------------------------------------------------------------------
\* Applications
\* ------------------------------------------------------------------------

\* main imports a, or a and b; a and b may import each other.
Layered ==
    [ m \in Modules |->
        CASE m = "main" -> { {"a"}, {"a", "b"} }
          [] m = "a"    -> { {}, {"b"} }
          [] m = "b"    -> { {}, {"a"} }
          [] m = "c"    -> { {} } ]

\* No import takes a named binding; every module exports the name.
Loose == [ m \in Modules |-> { FALSE } ]
Exporting == [ m \in Modules |-> { TRUE } ]

\* main, a and b import any of the others; c is not part of the graph.
Free ==
    [ m \in Modules |->
        IF m = "c" THEN { {} } ELSE SUBSET ({"main", "a", "b"} \ {m}) ]

\* Acceptance: every hot registration, one touched file, one invalidation,
\* one accept callback that fails.
AppAccept ==
    [ imports |-> Layered,
      strict |-> Loose,
      exports |-> Exporting,
      hot |-> [ m \in Modules |->
                  IF m = Root THEN { "none", "self", "deps" } ELSE HotKinds ],
      edits |-> {},
      concurrent |-> FALSE,
      limits |-> Limits(AcceptLoads, AcceptFaults, { "accept", "acceptSelf" },
                        AcceptInvalidations) ]

InitAccept == InitIn(AppAccept)
NextAccept == Run \/ Edit(AppAccept) \/ Invalidates
SpecAccept == InitAccept /\ [][NextAccept]_vars

\* Linking: named bindings come and go with the edits.
AppLink ==
    [ imports |-> Layered,
      strict |-> [ m \in Modules |-> IF m = "b" THEN { FALSE } ELSE BOOLEAN ],
      exports |-> [ m \in Modules |-> IF m = Root THEN { TRUE } ELSE BOOLEAN ],
      hot |-> [ m \in Modules |-> { "self" } ],
      edits |-> { "bindings" },
      concurrent |-> FALSE,
      limits |-> Limits(LinkLoads, 0, {}, 0) ]

InitLink == InitIn(AppLink)
NextLink == Run \/ Edit(AppLink)
SpecLink == InitLink /\ [][NextLink]_vars

\* Failing callbacks: bodies, dispose and prune callbacks throw.
AppFault ==
    [ imports |-> Layered,
      strict |-> Loose,
      exports |-> Exporting,
      hot |-> [ m \in Modules |-> { "self", "deps" } ],
      edits |-> { "imports" },
      concurrent |-> FALSE,
      limits |-> Limits(FaultLoads, FaultFaults, Callbacks, 0) ]

InitFault == InitIn(AppFault)
NextFault == Run \/ Edit(AppFault) \/ Prunes
SpecFault == InitFault /\ [][NextFault]_vars

\* Changing graphs: edits add and remove imports, also of modules not
\* loaded before and of the main module.
AppShape ==
    [ imports |-> Free,
      strict |-> Loose,
      exports |-> Exporting,
      hot |-> [ m \in Modules |-> { "self" } ],
      edits |-> { "imports" },
      concurrent |-> FALSE,
      limits |-> Limits(ShapeLoads, 0, {}, 0) ]

InitShape == InitIn(AppShape)
NextShape == Run \/ Edit(AppShape) \/ Prunes
SpecShape == InitShape /\ [][NextShape]_vars

\* Pruning and revival: edits remove imports and add them again; a body or
\* a prune callback throws.
AppPrune ==
    [ imports |-> Layered,
      strict |-> Loose,
      exports |-> Exporting,
      hot |-> [ m \in Modules |-> { "self" } ],
      edits |-> { "imports" },
      concurrent |-> FALSE,
      limits |-> Limits(PruneLoads, PruneFaults, { "evaluate", "prune" }, 0) ]

InitPrune == InitIn(AppPrune)
NextPrune == Run \/ Edit(AppPrune) \/ Prunes
SpecPrune == InitPrune /\ [][NextPrune]_vars

\* Watched files: edits that keep the imports arrive at any time, also
\* while an update runs; every update is asked for by the watcher.
AppWatch ==
    [ imports |-> [ m \in Modules |->
                      CASE m = "main" -> { {"a"} } [] m = "a" -> { {}, {"b"} }
                        [] OTHER -> { {} } ],
      strict |-> Loose,
      exports |-> Exporting,
      hot |-> [ m \in Modules |-> { "self" } ],
      edits |-> {},
      concurrent |-> TRUE,
      limits |-> Limits(WatchLoads, 0, {}, 0) ]

InitWatch == InitIn(AppWatch)
NextWatch == Watched(AppWatch)
SpecWatch == InitWatch /\ [][NextWatch]_vars

\* Dynamic imports: main imports a; main and a may import b with an
\* import() expression; b imports nothing.
AppDynamic ==
    [ imports |-> [ m \in Modules |-> IF m = Root THEN { {"a"} } ELSE { {} } ],
      dynamics |-> [ m \in Modules |->
                       IF m \in { "main", "a" } THEN { {}, {"b"} } ELSE { {} } ],
      strict |-> Loose,
      exports |-> Exporting,
      hot |-> [ m \in Modules |->
                  IF m = "b" THEN { "none", "self" } ELSE { "none", "self", "deps" } ],
      edits |-> {},
      concurrent |-> FALSE,
      limits |-> Limits(DynamicLoads, 0, {}, 0) ]

InitDynamic == InitIn(AppDynamic)
NextDynamic == Run \/ Edit(AppDynamic)
SpecDynamic == InitDynamic /\ [][NextDynamic]_vars

\* Start-up: main imports a, a may import b, main may import b with an
\* import() expression; files are edited also while dispatch runs.
AppBoot ==
    [ imports |-> [ m \in Modules |->
                      CASE m = "main" -> { {"a"} } [] m = "a" -> { {}, {"b"} }
                        [] OTHER -> { {} } ],
      dynamics |-> [ m \in Modules |-> IF m = Root THEN { {}, {"b"} } ELSE { {} } ],
      strict |-> Loose,
      exports |-> Exporting,
      hot |-> [ m \in Modules |-> { "self" } ],
      edits |-> {},
      concurrent |-> FALSE,
      limits |-> Limits(BootLoads, 0, {}, 0) ]

InitBoot == InitIn(AppBoot)
NextBoot == Run \/ Edit(AppBoot) \/ EditDispatching(AppBoot)
SpecBoot == InitBoot /\ [][NextBoot]_vars

\* Disposal: a and b import each other, a may import c, which imports a;
\* bodies, dispose and prune callbacks throw.
AppDispose ==
    [ imports |-> [ m \in Modules |->
                      CASE m = "main" -> { {"a"} }
                        [] m = "a" -> { {"b"}, {"b", "c"} }
                        [] OTHER -> { {"a"} } ],
      strict |-> Loose,
      exports |-> Exporting,
      hot |-> [ m \in Modules |-> { "self" } ],
      edits |-> { "imports" },
      concurrent |-> FALSE,
      limits |-> Limits(DisposeLoads, DisposeFaults,
                        { "evaluate", "dispose", "prune" }, 0) ]

InitDispose == InitIn(AppDispose)
NextDispose == Run \/ Edit(AppDispose) \/ Prunes
SpecDispose == InitDispose /\ [][NextDispose]_vars

\* Races: main and a may import each other; files change, imports included,
\* while main() is idle and while an update is suspended in phase 3 (not
\* while it awaits a prune callback); requestUpdate is called directly.
AppRace ==
    [ imports |-> [ m \in Modules |->
                      CASE m = "main" -> { {}, {"a"} }
                        [] m = "a" -> { {}, {"main"} }
                        [] OTHER -> { {} } ],
      strict |-> Loose,
      exports |-> Exporting,
      hot |-> [ m \in Modules |-> { "self" } ],
      edits |-> { "imports" },
      concurrent |-> TRUE,
      limits |-> Limits(RaceLoads, 0, {}, 0) ]

InitRace == InitIn(AppRace)
EditRacing == call.pc # "prune" /\ Edit(AppRace)
NextRace == Run \/ EditRacing \/ Prunes
SpecRace == InitRace /\ [][NextRace]_vars

\* ------------------------------------------------------------------------
\* Properties
\* ------------------------------------------------------------------------

\* requestUpdate has just returned a result of this type.
Returned(type) == call.pc = "settled" /\ result.type = type

\* No user code ran during the call: no dispose callback, no instantiation,
\* no module body.
NothingRan ==
    /\ seen.disposed = << >>
    /\ seen.instantiated = << >>
    /\ seen.evaluated = << >>

\* current and staging of every controller are what they were at the call.
SlotsKept == current = seen.currentBefore /\ staging = seen.stagingBefore

\* C1: a call whose dry run finds a declined member in some component's
\* invalidated list returns `declined` at once; during the call no dispose
\* callback ran, nothing was instantiated or evaluated, and current and
\* staging of every controller are the instances they were before the call
\* - also when the root's own invalidated list is not empty.
C1_DeclineBlocksUpdate ==
    seen.initialResult.hasDecline =>
        /\ Returned("declined")
        /\ NothingRan
        /\ SlotsKept

\* C1, witness: a declined update that had also reached the root unaccepted.
C1_DeclinedAndUnaccepted ==
    /\ Returned("declined")
    /\ seen.initialResult.hasDecline
    /\ seen.initialResult.invalidated # {}
    /\ \E n \in Modules : staging[n] # NULL

\* The dry run's marks are gone from the controllers it visited.
MarksCleared ==
    \A n \in seen.initialResult.visited :
        pending[n] = NULL /\ previous[n] = NULL /\ temporary[n] = NULL

\* C2: a call whose link test throws returns `linkError`; during the call no
\* dispose callback and no module body ran, current of every controller is
\* the instance it was before the call, and pending, previous and temporary
\* are undefined on every controller the dry run visited.
C2_LinkTestIsPure ==
    seen.initialResult.linkTestThrew =>
        /\ Returned("linkError")
        /\ seen.disposed = << >>
        /\ seen.evaluated = << >>
        /\ current = seen.currentBefore
        /\ MarksCleared

\* C2, witness: the link test threw in an update with new code for a
\* running application of at least two controllers.
C2_LinkTestThrew ==
    /\ Returned("linkError")
    /\ seen.initialResult.linkTestThrew
    /\ seen.initialResult.hasNewCode
    /\ Cardinality(seen.initialResult.visited) > 1
    /\ \A n \in seen.initialResult.visited : current[n] # NULL

\* The instance is linked against the current instances of its imports.
LinkedToCurrent(id) ==
    instances[id].bindings =
        [ c \in Modules |->
            IF c \in instances[id].decl.imports THEN current[c] ELSE NULL ]

\* Every controller reachable from the root through current has a current
\* instance, linked against the current instances of its imports.
GraphLinked ==
    \A n \in Reachable(View(instances, current, current), Root) :
        current[n] # NULL /\ LinkedToCurrent(current[n])

\* C3: a call in which the body of a replacement threw returns
\* `evaluationError`; the controller of that replacement then has the current
\* it had before the call, and every controller reachable from the root
\* through current is linked again.
C3_EvaluationErrorRollsBack ==
    (call.pc = "settled" /\ seen.threw # NoModule) =>
        /\ result.type = "evaluationError"
        /\ current[seen.threw] = seen.currentBefore[seen.threw]
        /\ GraphLinked

\* No controller carries a mark of the dry run.
NoMarks == \A n \in Modules : pending[n] = NULL /\ previous[n] = NULL

C5_UnacceptedLeavesNoTrace ==
    ( /\ call.pc = "settled"
      /\ seen.initialResult.ran
      /\ ~seen.initialResult.hasDecline
      /\ seen.initialResult.invalidated # {} ) =>
        /\ result.type = "unaccepted"
        /\ NothingRan
        /\ SlotsKept
        /\ NoMarks

\* C6: the fatal error a call returns is the one the controller records;
\* a call on a controller with a recorded fatal error returns that very
\* record in its first step, without a dry run and without touching any
\* slot or instance; and a recorded fatal error is never reset.
C6_FatalErrorIsSticky ==
    /\ [](Returned("fatalError") => result = fatalError)
    /\ [][ (call.pc = "idle" /\ fatalError # NoResult /\ call'.pc # "idle") =>
              /\ call'.pc = "settled"
              /\ result' = fatalError
              /\ ~seen'.initialResult.ran
              /\ seen'.disposed = << >> /\ seen'.evaluated = << >>
              /\ seen'.relinked = {}
              /\ UNCHANGED << slots, instances, fatalError >> ]_vars
    /\ [][ fatalError # NoResult => fatalError' # NoResult ]_vars

\* C6, witness: a call returned the fatal error an earlier call had recorded.
C6_FatalErrorReturnedAgain ==
    /\ Returned("fatalError")
    /\ ~seen.initialResult.ran
    /\ seen.currentBefore = current
    /\ \E n \in Modules : current[n] # NULL

\* ------------------------------------------------------------------------
\* The application as a call found it
\* ------------------------------------------------------------------------

ViewBefore ==
    View(seen.instancesBefore, seen.currentBefore, seen.currentBefore)

\* What the dry run selects: staging ?? current.
PendingBefore ==
    [ n \in Modules |->
        IF seen.stagingBefore[n] # NULL THEN seen.stagingBefore[n]
        ELSE seen.currentBefore[n] ]

ViewPendingBefore ==
    View(seen.instancesBefore, PendingBefore, seen.currentBefore)

\* The controllers with new code.
NewCodeBefore == { n \in Modules : seen.stagingBefore[n] # NULL }

\* The running controllers that import m.
ImportersBefore(m) ==
    { n \in Reachable(ViewBefore, Root) :
        seen.currentBefore[n] # NULL /\ m \in SetOf(ViewBefore[n]) }

\* n registered accept(m).
AcceptedBefore(n, m) ==
    /\ Registered(seen.instancesBefore, seen.currentBefore[n])
    /\ m \in Accepts(seen.instancesBefore[seen.currentBefore[n]].decl)

\* The controllers that were disposed, instantiated or evaluated.
Replaced ==
    SetOf(seen.disposed) \cup SetOf(seen.instantiated) \cup SetOf(seen.evaluated)

\* The case of C7: m is the one controller with new code, it runs, is not
\* declined, every importer registered accept(m), and no accept callback
\* failed during the call.
OnlyChangedAndAccepted(m) ==
    /\ call.pc = "settled"
    /\ NewCodeBefore = {m}
    /\ m \in Reachable(ViewBefore, Root)
    /\ seen.currentBefore[m] # NULL
    /\ ~isDeclined(seen.instancesBefore, seen.currentBefore[m])
    /\ \A n \in ImportersBefore(m) : AcceptedBefore(n, m)
    /\ seen.failed \cap { "accept", "acceptSelf" } = {}

\* What C7 promises of such a call.
AcceptLocality(m) ==
    /\ result.type = "success"
    /\ SetOf(seen.evaluated) = {m}
    /\ ImportersBefore(m) \cap Replaced = {}

OnlyChangedAndSelfAccepted(m) ==
    /\ call.pc = "settled"
    /\ NewCodeBefore = {m}
    /\ m \in Reachable(ViewBefore, Root)
    /\ seen.currentBefore[m] # NULL
    /\ isAcceptedSelf(seen.instancesBefore, seen.currentBefore[m])
    /\ "acceptSelf" \notin seen.failed

\* What C8 promises of such a call.
SelfAcceptLocality(m) ==
    /\ result.type = "success"
    /\ SetOf(seen.evaluated) = {m}
    /\ m \notin seen.listed
    /\ Replaced \subseteq {m}

Count(seq, n) == Cardinality({ i \in 1 .. Len(seq) : seq[i] = n })

ReachableNow == Reachable(View(instances, current, current), Root)

\* n was reachable when the call began and is not reachable now.
Orphaned(n) ==
    /\ n \in Reachable(ViewBefore, Root)
    /\ seen.currentBefore[n] # NULL
    /\ n \notin ReachableNow

\* n is staged as a clone of the instance that ran when the call began.
StagedAsClone(n) ==
    /\ current[n] = NULL
    /\ staging[n] # NULL
    /\ staging[n] # seen.currentBefore[n]
    /\ instances[staging[n]] =
          Clone(seen.instancesBefore, seen.currentBefore[n])

\* n was pruned by an earlier call and has not run since; the call made it
\* reachable again.
Revived(n) ==
    /\ n \in seen.dormant
    /\ n \notin SetOf(seen.pruned)
    /\ seen.currentBefore[n] = NULL
    /\ seen.stagingBefore[n] # NULL
    /\ n \in ReachableNow

\* C9: when a call has returned, a controller that was reachable before the
\* call and is not reachable after it had prune run on its current instance
\* once, has no current and has a clone of that instance in staging; a call
\* prunes no controller twice and none that was not reachable when it began;
\* and a controller pruned earlier that the call made reachable again has
\* the staged instance as current, was evaluated, and has staging cleared.
C9_PruneAndRevive ==
    /\ call.pc = "settled" =>
          \A n \in Modules :
              Orphaned(n) => Count(seen.pruned, n) = 1 /\ StagedAsClone(n)
    /\ \A n \in SetOf(seen.pruned) :
          /\ Count(seen.pruned, n) = 1
          /\ n \in Reachable(ViewBefore, Root)
    /\ call.pc = "settled" =>
          \A n \in Modules :
              Revived(n) =>
                  /\ current[n] = seen.stagingBefore[n]
                  /\ n \in SetOf(seen.evaluated)
                  /\ staging[n] = NULL

\* C10: when requestUpdate has returned `success`, every controller reachable
\* from the root through current, the root included, has pending, previous
\* and temporary undefined; and so it is in the state a dispatch resolves in.
C10_NoMarksAfterSuccess ==
    /\ [](Returned("success") =>
            \A n \in ReachableNow :
                pending[n] = NULL /\ previous[n] = NULL /\ temporary[n] = NULL)
    /\ [][ (call.pc = "dispatch" /\ call'.pc = "idle") =>
              \A n \in Reachable(View(instances', current', current'), Root) :
                  pending'[n] = NULL /\ previous'[n] = NULL
                      /\ temporary'[n] = NULL ]_vars


\* ------------------------------------------------------------------------
\* What the try block of a call returns
\* ------------------------------------------------------------------------

\* A step ends the post-visit of the root's component, the last one.
RootPostVisitEnds ==
    /\ call.pc \in { "enter", "accept", "evaluate", "acceptSelf" }
    /\ call.k = Len(call.order)
    /\ call'.pc \in { "settled", "prune" }

\* What the try or the catch block returned in that step.
OutcomeNext == IF call'.pc = "settled" THEN result' ELSE call'.outcome

\* C11: when the post-visit of the root's component ends phase 3 with a
\* non-empty invalidated list (a self-accept of a replaced member failed) and
\* the call does not reject, the call returns `unacceptedEvaluation`.
C11_UnacceptedEvaluation ==
    [][ ( /\ RootPostVisitEnds
          /\ seen'.evaluated # << >>
          /\ SetOf(call.order[call.k]) \cap seen'.listed # {}
          /\ OutcomeNext # Rejected ) =>
            OutcomeNext.type = "unacceptedEvaluation" ]_vars


\* ------------------------------------------------------------------------
\* Updates the watcher asks for
\* ------------------------------------------------------------------------

\* An execution of requestUpdate is in flight.
InFlight == call.pc \notin { "boot", "dispatch", "crashed", "idle" }

\* A step begins an execution of requestUpdate.
ExecutionBegins == debounce'.started # debounce.started

\* C12: an execution of the root's requestUpdate begins only when none is in
\* flight; the calls that arrive while one is in flight, however many, are
\* remembered as one follow-up, which begins as one execution, for all of
\* them, after the one in flight has settled.
C12_UpdatesNeverOverlap ==
    /\ [][ ExecutionBegins =>
              /\ call.pc = "idle"
              /\ debounce'.started = debounce.started + 1 ]_vars
    /\ [](InFlight => debounce.running)
    /\ [](debounce.queued <=> debounce.missed > 0)
    /\ [][ (debounce.queued /\ ~debounce'.queued) =>
              /\ ExecutionBegins
              /\ debounce'.followUp
              /\ debounce'.served = debounce.missed ]_vars
    /\ [][ (ExecutionBegins /\ debounce'.followUp) => debounce.queued ]_vars

\* C12, witness: a follow-up execution is in flight for two calls that
\* arrived during the execution before it.
C12_FollowUpForTwoCalls ==
    /\ InFlight
    /\ call.pc # "settled"
    /\ debounce.followUp
    /\ debounce.served >= 2
    /\ debounce.started >= 2

\* The instance staged on n is the one the most recent load of n wrote.
LatestStaged(n) ==
    staging[n] # NULL => instances[staging[n]].decl.version = version[n]

\* C13: when the window of the timer closes with no update in flight, the
\* calls made in it, however many, begin exactly one execution of the root's
\* requestUpdate; a call by itself begins none; and for every controller with
\* a staged instance that the execution visits, the instance it takes as
\* pending is the one the most recent load wrote to staging.
C13_OneUpdatePerWindow ==
    /\ [][ (debounce.timer /\ ~debounce'.timer /\ ~debounce.running) =>
              /\ debounce.calls >= 1
              /\ debounce'.started = debounce.started + 1
              /\ debounce'.served = debounce.calls
              /\ seen'.initialResult.ran
              /\ \A n \in seen'.initialResult.visited :
                    /\ LatestStaged(n)
                    /\ (staging[n] # NULL /\ call'.pc # "settled") =>
                          pending'[n] = staging[n] ]_vars
    /\ [][ debounce'.calls > debounce.calls =>
              /\ debounce'.timer
              /\ ~ExecutionBegins ]_vars

\* C13, witness: an execution in flight serves the three events of one
\* window, two of them on one controller; it took the staged instances of
\* both controllers.
C13_ThreeEventsOneUpdate ==
    /\ InFlight
    /\ ~debounce.followUp
    /\ debounce.started = 1
    /\ debounce.served = 3
    /\ \E n \in Modules : \E m \in Modules \ {n} :
          /\ version[n] = 2 /\ pending[n] # NULL /\ pending[n] = staging[n]
          /\ instances[pending[n]].decl.version = 2
          /\ version[m] = 1 /\ pending[m] # NULL /\ pending[m] = staging[m]


\* ------------------------------------------------------------------------
\* The order of evaluation
\* ------------------------------------------------------------------------

\* p's component depends on the different component of c.
StrictlyDepends(view, p, c) ==
    c \in Reachable(view, p) /\ p \notin Reachable(view, c)

\* The graph phase 3 walks: the static imports of pending and the dynamic
\* imports of previous ?? pending, as the call found them.
TraversedBefore ==
    View(seen.instancesBefore, PendingBefore,
         [ n \in Modules |->
             IF seen.currentBefore[n] # NULL THEN seen.currentBefore[n]
             ELSE PendingBefore[n] ])

\* The members dispatch has evaluated and those it has yet to evaluate.
DispatchEvaluated == { call.order[i] : i \in 1 .. (call.j - 1) }
DispatchToEvaluate == { call.order[i] : i \in call.j .. Len(call.order) }

StagedSetLinks ==
    \A n \in Reachable(TraversedBefore, Root) :
        /\ PendingBefore[n] # NULL
        /\ CanLink(seen.instancesBefore, PendingBefore[n], PendingBefore)

\* The call came after one that ended in linkError and a load of a module
\* that was not staged then.
AfterLinkError ==
    /\ seen.refused # {}
    /\ \E n \in NewCodeBefore \ seen.refused : TRUE

\* C15: a call that returns `linkError` leaves staging and current as it
\* found them and keeps no pending, previous or temporary; when a later
\* load stages another module and the staged set links as a whole, the
\* next call returns `success` with every staged instance adopted as
\* current and staging cleared.
C15_LinkErrorRecoverable ==
    /\ [][ (call.pc # "settled" /\ call'.pc = "settled"
                /\ result'.type = "linkError") =>
              /\ staging' = seen'.stagingBefore
              /\ current' = seen'.currentBefore
              /\ \A n \in Modules :
                    /\ pending'[n] = NULL /\ temporary'[n] = NULL
                    /\ current'[n] # NULL =>
                          instances'[current'[n]]
                              = seen'.instancesBefore[current'[n]]
                    /\ staging'[n] # NULL =>
                          instances'[staging'[n]]
                              = seen'.instancesBefore[staging'[n]] ]_vars
    /\ [][ (call.pc # "settled" /\ call'.pc = "settled"
                /\ AfterLinkError' /\ StagedSetLinks') =>
              /\ result'.type = "success"
              /\ \A n \in NewCodeBefore' \cap Reachable(TraversedBefore', Root) :
                    /\ current'[n] = seen'.stagingBefore[n]
                    /\ staging'[n] = NULL ]_vars

\* A call that followed a link error and the load of another module has
\* returned `success`.
C15_RecoveredByLaterLoad ==
    /\ Returned("success")
    /\ AfterLinkError
    /\ seen.refused \subseteq NewCodeBefore


\* ------------------------------------------------------------------------
\* Declined modules
\* ------------------------------------------------------------------------

\* The running controllers that had registered decline() when the call began.
DeclinedBefore ==
    { n \in Reachable(ViewPendingBefore, Root) :
        /\ seen.currentBefore[n] # NULL
        /\ isDeclined(seen.instancesBefore, seen.currentBefore[n]) }

\* The dependencies of n that the dry run listed as invalidated.
ListedDependencies(n) == SetOf(ViewPendingBefore[n]) \cap seen.listed

\* A declined module the update does not reach: no new code, not
\* invalidated, every invalidated dependency accepted.
Undisturbed(d) ==
    /\ d \notin NewCodeBefore
    /\ ~isInvalidated(seen.instancesBefore, seen.currentBefore[d])
    /\ ListedDependencies(d)
          \subseteq Accepts(seen.instancesBefore[seen.currentBefore[d]].decl)

\* The update is accepted as far as the modules that did not decline go:
\* something needed a dispatch, the root's invalidated list is empty, the
\* link test passed and no callback threw or invalidated.
OtherwiseAccepted ==
    /\ seen.initialResult.ran
    /\ seen.initialResult.needsDispatch
    /\ seen.initialResult.invalidated = {}
    /\ ~seen.initialResult.linkTestThrew
    /\ seen.threw = NoModule
    /\ seen.failed = {}

\* C16: a call returns `declined` only when a declined module is a member
\* of an invalidated list of the dry run; when every declined module has no
\* new code, is not invalidated and accepts each invalidated dependency, an
\* update that is otherwise accepted returns `success`.
C16_DeclineOnlyWhenInvalidated ==
    /\ Returned("declined") => DeclinedBefore \cap seen.listed # {}
    /\ ( /\ call.pc = "settled"
         /\ OtherwiseAccepted
         /\ \A d \in DeclinedBefore : Undisturbed(d) ) =>
            result.type = "success"

\* An update below a declined module that accepts the changed dependency
\* has returned `success`.
C16_AcceptedBelowDecline ==
    /\ Returned("success")
    /\ \E d \in DeclinedBefore :
          /\ Undisturbed(d)
          /\ ListedDependencies(d) # {}


\* ------------------------------------------------------------------------
\* Dynamic imports
\* ------------------------------------------------------------------------

\* The running controllers, reached from the root through static imports,
\* whose instance imported c with an import() expression and not with an
\* import statement.
DynamicImportersBefore(c) ==
    { p \in Reachable(StaticView(seen.instancesBefore, seen.currentBefore), Root) :
        /\ seen.currentBefore[p] # NULL
        /\ c \in seen.instancesBefore[seen.currentBefore[p]].dynamicImports
        /\ c \notin seen.instancesBefore[seen.currentBefore[p]].decl.imports }

\* c has new code that it does not accept itself, and it was running.
ChangedUnaccepted(c) ==
    /\ c \in NewCodeBefore
    /\ seen.currentBefore[c] # NULL
    /\ ~isAcceptedSelf(seen.instancesBefore, seen.currentBefore[c])

\* p itself gives no reason for a dispatch.
Unchanged(p) ==
    /\ p \notin NewCodeBefore
    /\ ~isInvalidated(seen.instancesBefore, seen.currentBefore[p])

\* C17: an edge made by an import() expression carries invalidation like
\* a static one.  When a dynamically imported module has new code it does
\* not accept itself, an importer that neither accepts it nor itself is
\* invalidated too, and when that importer is the root the call returns
\* `unaccepted` with no body run; an importer that registered accept for
\* it is not invalidated, its accept callback runs and its body does not,
\* and when it is the root the call returns `success`.
C17_DynamicEdgesPropagate ==
    (call.pc = "settled" /\ fatalError = NoResult) =>
        \A c \in Modules : \A p \in DynamicImportersBefore(c) :
            (ChangedUnaccepted(c) /\ Unchanged(p)) =>
                /\ c \in seen.listed
                /\ ( /\ ~AcceptedBefore(p, c)
                     /\ ~isAcceptedSelf(seen.instancesBefore, seen.currentBefore[p]) ) =>
                        /\ p \in seen.listed
                        /\ p = Root =>
                              /\ result.type = "unaccepted"
                              /\ seen.evaluated = << >>
                /\ ( /\ AcceptedBefore(p, c)
                     /\ seen.listed \cap SetOf(ViewBefore[p])
                           \subseteq Accepts(seen.instancesBefore[seen.currentBefore[p]].decl) ) =>
                        /\ p \notin seen.listed
                        /\ p = Root => result.type = "success"
                        /\ result.type = "success" =>
                              /\ p \in SetOf(seen.accepted)
                              /\ p \notin SetOf(seen.evaluated)

\* The root accepted the new code of a module it imports dynamically.
C17_DynamicAccepted ==
    /\ Returned("success")
    /\ \E c \in Modules :
          /\ ChangedUnaccepted(c)
          /\ Root \in DynamicImportersBefore(c)
          /\ AcceptedBefore(Root, c)
          /\ Root \in SetOf(seen.accepted)


\* ------------------------------------------------------------------------
\* A link failure in dispatch
\* ------------------------------------------------------------------------

\* dispatch rejected with a link error.
DispatchLinkFailed == call.pc = "crashed" /\ call.error = "link"

\* The graph dispatch walked: the static imports of the staged instances
\* (staging is cleared by the evaluate traversal only).
StagedView == StaticView(instances, staging)

\* The link of n's staged instance against the staged instances fails.
LinkFails(n) == ~CanLink(instances, staging[n], staging)

\* n's instance was instantiated by dispatch and never linked or unlinked.
OnlyInstantiated(n) ==
    current[n] # NULL /\ instances[current[n]].status = "unlinked"

\* n and everything it reaches was linked.
LinkedBelow(n) ==
    \A m \in Reachable(StagedView, n) :
        /\ current[m] = staging[m]
        /\ instances[current[m]].status = "linked"
        /\ ~LinkFails(m)

\* C18, as the claim has it: after a link failure every member of the
\* component that failed has its current cleared.
C18_FailingComponentCleared ==
    DispatchLinkFailed =>
        \E f \in Reachable(StagedView, Root) :
            /\ LinkFails(f)
            /\ \A n \in Component(StagedView, f) : current[n] = NULL

\* C18: dispatch evaluates no body before the whole graph is linked.  When
\* the link of a member fails dispatch rejects with the link error and no
\* body has run; the failing member, the members of its component that
\* were linked before it, and the nodes descended into and not yet
\* post-visited are unlinked and have current cleared; the members of its
\* component that come after it keep the instance they were given,
\* instantiated and not linked; the components completed before keep theirs,
\* linked.
C18_LinkBeforeEvaluate ==
    /\ call.pc = "dispatch" =>
          \A n \in Reachable(StaticView(instances, current), Root) :
              /\ current[n] # NULL
              /\ instances[current[n]].status \in { "linked", "evaluated" }
              /\ CanLink(instances, current[n], current)
    /\ DispatchLinkFailed =>
          /\ \A i \in Ids : instances[i].status # "evaluated"
          /\ current[Root] = NULL
          /\ \E f \in Reachable(StagedView, Root) :
                /\ LinkFails(f)
                /\ current[f] = NULL
                /\ instances[staging[f]].status = "new"
                /\ \A n \in Reachable(StagedView, Root) :
                      \/ current[n] = NULL /\ instances[staging[n]].status = "new"
                                           /\ f \in Reachable(StagedView, n)
                      \/ OnlyInstantiated(n) /\ n \in Component(StagedView, f)
                                             /\ current[n] = staging[n]
                      \/ LinkedBelow(n)

\* dispatch failed to link a component of two members at its first one.
C18_CycleFailsAtFirstMember ==
    /\ DispatchLinkFailed
    /\ \E f \in Reachable(StagedView, Root) :
          /\ LinkFails(f)
          /\ current[f] = NULL
          /\ \E n \in Component(StagedView, f) : OnlyInstantiated(n)


\* ------------------------------------------------------------------------
\* What dispatch leaves
\* ------------------------------------------------------------------------

\* The dispatch main() awaits resolves with this step.
DispatchResolves == call.pc = "dispatch" /\ call'.pc = "idle"

\* The controllers dispatch walked: at start-up every one of them adopted
\* its staging as current.
Dispatched == Reachable(StaticView(instances, current), Root)

\* n runs the instance it adopted and that instance was evaluated.
Running(n) ==
    /\ current[n] # NULL
    /\ instances[current[n]].status = "evaluated"

\* A load staged newer code of n after its staging was adopted.
StagedSince(n) ==
    /\ staging[n] # NULL
    /\ staging[n] # current[n]
    /\ instances[staging[n]].decl.version > instances[current[n]].decl.version

\* The modules the body evaluated by this step of dispatch imports with
\* import() and that have a current already.
ImportedAgain ==
    { c \in instances[current[call.order[call.j]]].decl.dynamics :
        current[c] # NULL }

EndedAfter(callback) == call.pc = "settled" /\ callback \in seen.failed

\* The call returned a fatal error and recorded it.
FatalRecorded == result.type = "fatalError" /\ fatalError = result

\* C20: a dispose callback that throws during phase 3 makes requestUpdate
\* return `fatalError` and record it; a prune callback that throws during
\* finalization does the same, whatever the update had produced before.
C20_DisposeAndPruneAreFatal ==
    /\ EndedAfter("dispose") => FatalRecorded
    /\ EndedAfter("prune") => FatalRecorded


\* C21: a call prunes controllers only if they are not reachable from the
\* root through current when it has returned; it never prunes the root
\* controller, and when a call has returned the root has a current instance,
\* also when the call removed an import cycle that led back to the root.
C21_RootNeverPruned ==
    /\ Root \notin SetOf(seen.pruned)
    /\ call.pc = "settled" =>
          /\ current[Root] # NULL
          /\ \A n \in SetOf(seen.pruned) : n \notin ReachableNow


\* n has as current an instance the call instantiated and did not evaluate.
InstantiatedNotEvaluated(n) ==
    /\ n \in SetOf(seen.instantiated)
    /\ current[n] # NULL
    /\ current[n] # seen.currentBefore[n]
    /\ instances[current[n]].status # "evaluated"

\* The body of the current instance of n threw.
EvaluationFailed(n) ==
    current[n] # NULL /\ instances[current[n]].evaluationError

\* C22: when requestUpdate has returned `evaluationError`, no controller
\* reachable from the root through current has as current an instance that
\* the call instantiated and never evaluated, or one whose body threw; also
\* not the members of a cycle that come after the member that threw.
C22_NoHalfReplacedCurrent ==
    Returned("evaluationError") =>
        \A n \in ReachableNow :
            ~InstantiatedNotEvaluated(n) /\ ~EvaluationFailed(n)


\* The controllers the dry run of the call assigned pending to.
DryRunVisited == seen.initialResult.visited

\* C23: when requestUpdate has returned, whatever the result, every
\* controller the dry run assigned pending to has pending undefined again,
\* also a controller that is reachable only through the pending instance of
\* an importer and through no current instance.
C23_PendingClearedOnReturn ==
    (call.pc = "settled" /\ result.type # "rejected") =>
        \A n \in DryRunVisited : pending[n] = NULL


\* load staged a newer version of n than the one that runs, and n has not
\* adopted it.
FreshlyStaged(n) ==
    /\ staging[n] # NULL
    /\ current[n] # NULL
    /\ staging[n] # current[n]
    /\ instances[staging[n]].decl.version > instances[current[n]].decl.version

\* This step makes the staging of n stop referring to the staged instance
\* although no load replaces it and n has not adopted it.
Discards(n) ==
    /\ FreshlyStaged(n)
    /\ staging'[n] # staging[n]
    /\ version'[n] = version[n]
    /\ current'[n] # staging[n]

\* C24: staging stops referring to an instance that load placed there only
\* when another load replaces it or when it has become the current of the
\* controller; an orphan with a freshly staged instance does not get it
\* replaced by a clone of its old current.
C24_StagedIsNeverDiscarded ==
    [][ \A n \in Modules : ~Discards(n) ]_vars


\* The newest version of n that a controller slot held when the call began.
VersionBefore(n) ==
    LET held == { id \in { seen.stagingBefore[n], seen.currentBefore[n] } :
                    id # NULL }
    IN  IF held = {} THEN 0 - 1
        ELSE CHOOSE v \in { seen.instancesBefore[id].decl.version : id \in held } :
                \A id \in held : seen.instancesBefore[id].decl.version <= v

\* load wrote the staged instance of n while the running update was
\* suspended in phase 3.
StagedInFlight(n) ==
    /\ InFlight
    /\ staging[n] # NULL
    /\ instances[staging[n]].decl.version > VersionBefore(n)

\* This step runs the body of n in phase 3.
Evaluates(n) ==
    call.pc = "evaluate" /\ seen'.evaluated = Append(seen.evaluated, n)

\* C25: an instance that load writes to staging while an update is suspended
\* in phase 3 is not evaluated by that update, and staging keeps referring
\* to it until the update has returned, unless another load replaces it or
\* the controller is not reachable from the root any more.
C25_LoadInFlightIsKept ==
    [][ \A n \in Modules :
          /\ Evaluates(n) =>
                instances[current[n]].decl.version <= VersionBefore(n)
          /\ (StagedInFlight(n) /\ staging'[n] # staging[n]) =>
                \/ version'[n] > version[n]
                \/ n \notin ReachableNow' ]_vars


\* The members of the component phase 3 is at, and the member it is at.
Members == cycleNodes(State)
Member == cycleNode(State)

\* This step disposed and replaced the member without a failure.
Replaces ==
    /\ call.pc = "dispose"
    /\ call' # call
    /\ call'.pc \in { "dispose", "evaluate" }

StatusOf(n) == instances[current[n]].status

\* C26: in every component phase 3 replaces, dispose runs once on the
\* current of a member that has one, before the successor is instantiated,
\* and the successor gets the data dispose returned; a member without
\* current is not disposed; a member whose current is its pending is
\* replaced by a clone of current, any other by pending; no member is linked
\* before all are instantiated and none is evaluated before all are linked.
C26_DisposeInstantiateLinkEvaluate ==
    /\ [][ Replaces =>
            /\ seen'.instantiated = Append(seen.instantiated, Member)
            /\ instances'[current'[Member]].data = current[Member]
            /\ IF current[Member] = NULL
               THEN seen'.disposed = seen.disposed
               ELSE seen'.disposed = Append(seen.disposed, Member)
            /\ IF current[Member] = pending[Member]
               THEN /\ current'[Member] \notin { current[Member], NULL }
                    /\ instances'[current'[Member]].decl
                          = instances[current[Member]].decl
               ELSE current'[Member] = pending[Member] ]_vars
    /\ [](call.pc = "dispose" =>
            /\ \A i \in 1 .. (call.j - 1) : StatusOf(Members[i]) = "unlinked"
            /\ \A i \in call.j .. Len(Members) :
                  /\ Members[i] \notin SetOf(seen.instantiated)
                  /\ Members[i] \notin SetOf(seen.disposed))
    /\ [](call.pc = "evaluate" =>
            /\ \A i \in 1 .. (call.j - 1) : StatusOf(Members[i]) = "evaluated"
            /\ \A i \in call.j .. Len(Members) : StatusOf(Members[i]) = "linked"
            /\ \A i \in 1 .. Len(Members) :
                  /\ Count(seen.instantiated, Members[i]) = 1
                  /\ Count(seen.disposed, Members[i])
                        = IF previous[Members[i]] = NULL THEN 0 ELSE 1)

\* C26, witness: a component of two members is about to be evaluated; one
\* member was replaced by a clone of its current, the other by its pending
\* instance, and each got the data of its disposed instance.
C26_CloneAndPendingReplaced ==
    /\ call.pc = "evaluate"
    /\ call.j = 1
    /\ \E n, m \in SetOf(Members) :
          /\ previous[n] = pending[n]
          /\ current[n] # pending[n]
          /\ instances[current[n]].data = previous[n]
          /\ previous[m] # NULL
          /\ previous[m] # pending[m]
          /\ current[m] = pending[m]
          /\ instances[current[m]].data = previous[m]


\* The components whose post-visit has not decided yet whether to replace
\* the members: the one whose accept callbacks are awaited, and those after
\* the one phase 3 is at.
Undecided ==
    IF call.pc = "accept" THEN call.k .. Len(call.order)
    ELSE IF call.pc \in { "dispose", "evaluate", "acceptSelf" }
    THEN (call.k + 1) .. Len(call.order)
    ELSE {}

\* The test of lines 618-625 finds nothing to update in the component.
NothingToUpdate(nodes) ==
    \A i \in 1 .. Len(nodes) :
        /\ staging[nodes[i]] = NULL
        /\ current[nodes[i]] # NULL
        /\ ~isInvalidated(instances, current[nodes[i]])

CurrentIsPending(nodes) ==
    \A i \in 1 .. Len(nodes) : current[nodes[i]] = pending[nodes[i]]

Counters == IF call.pc = "settled" THEN call.stats ELSE stats(call)

\* The results that carry stats.
WithStats == { "success", "unacceptedEvaluation", "evaluationError" }

\* The body that this step runs belongs to the declaration that the previous
\* instance of n has.
SameDeclaration(n) ==
    /\ previous[n] # NULL
    /\ instances[current[n]].decl = instances[previous[n]].decl

\* C28: in a requestUpdate that reaches phase 3, loads + reevaluations is
\* the number of bodies the call began to evaluate, those that threw
\* included, also in what stats() reports after a return with stats; a body
\* counts as a reevaluation exactly when the member has a previous instance
\* with the same declaration as the new current, and as a load otherwise.
C28_StatsCountEvaluations ==
    /\ []( (InFlight /\ (call.pc = "settled" => result.type \in WithStats)) =>
              Counters.loads + Counters.reevaluations = Len(seen.evaluated) )
    /\ [][ \A n \in Modules :
              Evaluates(n) =>
                  Counters' = IF SameDeclaration(n)
                              THEN [ Counters EXCEPT !.reevaluations = @ + 1 ]
                              ELSE [ Counters EXCEPT !.loads = @ + 1 ] ]_vars

\* C28, witness: requestUpdate has returned `evaluationError` after a body
\* that threw; its stats count a load and a reevaluation.
C28_ThrownEvaluationCounted ==
    /\ Returned("evaluationError")
    /\ seen.threw # NoModule
    /\ Counters.loads >= 1
    /\ Counters.reevaluations >= 1
    /\ Len(seen.evaluated) = Counters.loads + Counters.reevaluations

=============================================================================
